---- MODULE Spec2Model ----
(***************************************************************************)
(* A model of the propagator simulation engine of qcdg-nv-simulation:      *)
(* the operator algebra (act, ptrace, tp) of qp-math.cpp, the spin         *)
(* clustering of nv-math.cpp, the AXY pulse-time generator and the two     *)
(* simulate_propagator overloads.                                          *)
(*                                                                         *)
(* Numbers.  Matrix entries are integers (act and ptrace only move and add *)
(* entries, so integer entries exercise them exactly).  Times are integer  *)
(* multiples of one tick; fractions of an AXY period are integer multiples *)
(* of 1/Den.  Arithmetic on them is exact: the rounding of the source's    *)
(* double arithmetic is outside the model.                                 *)
(***************************************************************************)
EXTENDS Integers, Sequences, FiniteSets, TLC

VARIABLES
  alg_pc,    \* operator algebra: "idle", "start_act", "acted", "act_aborted",
             \*   "traced", "start_ptrace", "ptraced", "ptrace_aborted"
  alg_A,     \* the operator handed to act / ptrace
  alg_isProd,\* whether alg_A was built as tp_list(alg_fac)
  alg_fac,   \* the single-qbit factors of alg_A when alg_isProd
  alg_qs,    \* qs_act
  alg_n,     \* qbits_new
  alg_B,     \* what act returned
  alg_tr,    \* qs_trace
  alg_R      \* what ptrace returned

algVars == <<alg_pc, alg_A, alg_isProd, alg_fac, alg_qs, alg_n, alg_B, alg_tr, alg_R>>

VARIABLES
  cl_pc,     \* clustering: "idle", "start", "done"
  cl_N,      \* nuclei.size()
  cl_c,      \* coupling_strength of every pair <<i, j>>, i < j, of nuclei
  cl_th,     \* min_coupling_strength
  cl_out     \* what cluster_nuclei returned

clVars == <<cl_pc, cl_N, cl_c, cl_th, cl_out>>

VARIABLES
  pu_pc,     \* pulse times: "idle", "start", "axy_aborted", "have_pulses", "advanced"
  pu_k,      \* harmonic k handed to axy_pulse_times
  pu_fp,     \* f*pi handed to axy_pulse_times, in halves
  pu_in,     \* the schedule handed to advanced_pulse_times
  pu_adv,    \* advance, in units of 1/Den of a period
  pu_shift,  \* a whole number of periods
  pu_out,    \* advanced_pulse_times(pu_in, pu_adv)
  pu_out2    \* advanced_pulse_times(pu_in, pu_adv + pu_shift periods)

puVars == <<pu_pc, pu_k, pu_fp, pu_in, pu_adv, pu_shift, pu_out, pu_out2>>

VARIABLES
  sim_pc,    \* simulate_propagator: "idle", "start", "aborted", "done"
  sim_path,  \* which overload is called: "static" or "dynamic"
  sim_k,     \* k_DD
  sim_fp,    \* f_DD*pi, in halves
  sim_x,     \* <<x1, x2>> that axy_pulse_times derives from f_DD
  sim_time,  \* simulation_time, in ticks
  sim_adv,   \* advance, in ticks
  sim_dt,    \* the integration step dt of the dynamic path, in ticks
  sim_out    \* what the call computed: the propagator and its bookkeeping

simVars == <<sim_pc, sim_path, sim_k, sim_fp, sim_x, sim_time, sim_adv, sim_dt, sim_out>>

VARIABLES
  ft_pc,      \* find_target_coupling: "idle", "start", "loop", "returned", "aborted"
  ft_N,       \* nuclei.size()
  ft_c,       \* coupling_strength of every pair of nuclei
  ft_target,  \* cluster_size_target
  ft_cutoff,  \* dcc_cutoff
  ft_cc,      \* cluster_coupling (initial_cluster_coupling before the call)
  ft_dcc,     \* dcc
  ft_small,   \* coupling_too_small
  ft_crossed, \* crossed_correct_coupling
  ft_iter,    \* passes of the while loop made so far
  ft_ret      \* the value returned

ftVars == <<ft_pc, ft_N, ft_c, ft_target, ft_cutoff, ft_cc, ft_dcc, ft_small,
            ft_crossed, ft_iter, ft_ret>>

VARIABLES
  fid_pc,     \* gate_fidelity: "idle", "start", "done", "aborted"
  fid_U,      \* the gate U
  fid_G,      \* the gate G it is compared with
  fid_out     \* the value returned, <<numerator, denominator>>

fidVars == <<fid_pc, fid_U, fid_G, fid_out>>

VARIABLES
  lk_pc,       \* index lookups: "idle", "start", "aborted", "returned",
               \*   "no_return", "in_aborted", "in_returned"
  lk_N,        \* nv.nuclei.size()
  lk_clusters, \* nv.clusters
  lk_index,    \* index
  lk_which,    \* the position in nv.clusters of the cluster handed to
               \*   get_index_in_cluster, from 1
  lk_ret       \* the value returned

lkVars == <<lk_pc, lk_N, lk_clusters, lk_index, lk_which, lk_ret>>

VARIABLES
  ui_pc,       \* U_int: "idle", "start", "aborted", "returned"
  ui_N,        \* nv.nuclei.size()
  ui_clusters, \* nv.clusters
  ui_index,    \* index of the target nucleus
  ui_pos,      \* nv.nuclei.at(index).pos, in units of a quarter lattice constant
  ui_pair,     \* whether a nucleus of the target's cluster is its larmor pair
  ui_exact,    \* exact
  ui_f_ok,     \* whether the f_DD computed for the target is in the range of
               \*   axy_pulse_times, when the perpendicular hyperfine field is not 0
  ui_out       \* what the call did: the kind and dimension of the matrix
               \*   returned, the diagnostic printed, the calls of simulate_propagator

uiVars == <<ui_pc, ui_N, ui_clusters, ui_index, ui_pos, ui_pair, ui_exact, ui_f_ok, ui_out>>

VARIABLES
  gc_pc,       \* group_clusters: "idle", "start", "done"
  gc_N,        \* nv.nuclei.size()
  gc_pos,      \* nv.nuclei.at(i).pos, in units of a quarter lattice constant
  gc_clusters, \* nv.clusters
  gc_out       \* the groups returned

gcVars == <<gc_pc, gc_N, gc_pos, gc_clusters, gc_out>>

VARIABLES
  mv_pc,      \* mvec operators: "idle", "start", "done", "aborted"
  mv_v,       \* the operand v: its vector of matrices
  mv_w,       \* the operand w
  mv_s,       \* the scalar s
  mv_G,       \* the matrix G
  mv_ret      \* the value returned

mvVars == <<mv_pc, mv_v, mv_w, mv_s, mv_G, mv_ret>>

VARIABLES
  rn_pc,      \* the integration loop of the control_fields overload, pass by
              \*   pass: "idle", "loop", "done"
  rn_x,       \* the first two pulse times
  rn_time,    \* simulation_time
  rn_adv,     \* advance
  rn_dt,      \* dt
  rn_t_i,     \* t_i
  rn_st,      \* U, pulse_count and the steps made
  rn_cancel,  \* whether the caller has asked the run to stop
  rn_since    \* passes of the loop begun since the caller asked

runVars == <<rn_pc, rn_x, rn_time, rn_adv, rn_dt, rn_t_i, rn_st, rn_cancel, rn_since>>

vars == <<algVars, clVars, puVars, simVars, ftVars, fidVars, lkVars, uiVars, gcVars, mvVars, runVars>>

\* the variables of all components but one
notAlg == <<clVars, puVars, simVars, ftVars, fidVars, lkVars, uiVars, gcVars, mvVars, runVars>>
notCluster == <<algVars, puVars, simVars, ftVars, fidVars, lkVars, uiVars, gcVars, mvVars, runVars>>
notPulse == <<algVars, clVars, simVars, ftVars, fidVars, lkVars, uiVars, gcVars, mvVars, runVars>>
notSim == <<algVars, clVars, puVars, ftVars, fidVars, lkVars, uiVars, gcVars, mvVars, runVars>>
notFt == <<algVars, clVars, puVars, simVars, fidVars, lkVars, uiVars, gcVars, mvVars, runVars>>
notFid == <<algVars, clVars, puVars, simVars, ftVars, lkVars, uiVars, gcVars, mvVars, runVars>>
notLk == <<algVars, clVars, puVars, simVars, ftVars, fidVars, uiVars, gcVars, mvVars, runVars>>
notUi == <<algVars, clVars, puVars, simVars, ftVars, fidVars, lkVars, gcVars, mvVars, runVars>>
notGc == <<algVars, clVars, puVars, simVars, ftVars, fidVars, lkVars, uiVars, mvVars, runVars>>
notMv == <<algVars, clVars, puVars, simVars, ftVars, fidVars, lkVars, uiVars, gcVars, runVars>>
notRun == <<algVars, clVars, puVars, simVars, ftVars, fidVars, lkVars, uiVars, gcVars, mvVars>>

\* ------------------------------------------------------------------------
\* Bounds of the model
\* ------------------------------------------------------------------------

\* largest number of qbits of an operator handed to act / ptrace
MaxQubits == 3

\* largest number of nuclei handed to cluster_nuclei
NumSpins == 3

\* coupling strengths are 0..MaxCoupling, thresholds 0..MaxCoupling+1
MaxCoupling == 2

\* a quarter of an AXY period, in units of 1/Den of a period
Quarter == 4

\* fractions of a period are multiples of 1/Den; 1 is Den
Den == 4 * Quarter

\* largest harmonic handed to axy_pulse_times
MaxHarmonic == 4

\* f*pi is given in halves, from -MaxFp/2 to MaxFp/2
MaxFp == 9

\* largest number of interior markers of a caller-made schedule
MaxMarkers == 2

\* advances shifted by up to MaxShift whole periods either way
MaxShift == 2

\* thresholds of find_target_coupling are multiples of 2^-FineBits of the
\* weakest coupling
FineBits == 3

\* passes of the while loop of find_target_coupling that are followed
MaxIter == 12

\* simulation_time runs from 0 to MaxPeriods periods and a little more
MaxPeriods == 2

\* simulation_time and advance go up to Slack ticks beyond whole periods, and
\* advance starts Slack ticks below 0
Slack == 2

\* ------------------------------------------------------------------------
\* Generic helpers
\* ------------------------------------------------------------------------

Pow2(n) == 2^n

Range(s) == {s[i] : i \in DOMAIN s}

\* sequences of pairwise distinct elements of S with exactly k elements
DistinctSeqs(S, k) ==
  {s \in [1..k -> S] : \A i, jj \in 1..k : i # jj => s[i] # s[jj]}

\* the elements of i..n-1 that are in T, in ascending order
RECURSIVE AscendingFrom(_, _, _)
AscendingFrom(i, n, T) ==
  IF i >= n THEN <<>>
  ELSE (IF i \in T THEN <<i>> ELSE <<>>) \o AscendingFrom(i + 1, n, T)

\* in_vector(val, vec)
in_vector(val, vec) == \E i \in DOMAIN vec : vec[i] = val

\* ------------------------------------------------------------------------
\* Matrices: a square matrix is [dim, e] with e a function on
\* (0..dim-1) \X (0..dim-1)
\* ------------------------------------------------------------------------

Mat(d, F(_, _)) ==
  [dim |-> d, e |-> [rc \in (0..(d - 1)) \X (0..(d - 1)) |-> F(rc[1], rc[2])]]

At(M, r, c) == M.e[<<r, c>>]

ZeroF(r, c) == 0
IdF(r, c) == IF r = c THEN 1 ELSE 0

\* MatrixXcd::Identity(d,d)
Identity(d) == Mat(d, IdF)

\* floor(log2(d)) for d >= 1: the value of `const uint q = log2(A.rows())`
Log2Floor(d) == CHOOSE k \in 0..(MaxQubits + 2) : Pow2(k) <= d /\ d < Pow2(k + 1)

\* kroneckerProduct(A,B)
tp(A, B) ==
  LET F(r, c) == At(A, r \div B.dim, c \div B.dim) * At(B, r % B.dim, c % B.dim)
  IN Mat(A.dim * B.dim, F)

\* tp of a list of matrices, folded from the left starting at I1
RECURSIVE tp_list(_)
tp_list(list) ==
  IF list = <<>> THEN Identity(1)
  ELSE tp(tp_list(SubSeq(list, 1, Len(list) - 1)), list[Len(list)])

\* M.trace()
RECURSIVE TraceFrom(_, _)
TraceFrom(M, i) == IF i >= M.dim THEN 0 ELSE At(M, i, i) + TraceFrom(M, i + 1)
trace(M) == TraceFrom(M, 0)

\* s * M
Scale(s, M) ==
  LET F(r, c) == s * At(M, r, c) IN Mat(M.dim, F)

\* ------------------------------------------------------------------------
\* Operator rearrangement (qp-math.h, qp-math.cpp)
\* ------------------------------------------------------------------------

\* the n-th bit of num
int_bit(num, n) == IF Pow2(n) > num THEN 0 ELSE (num \div Pow2(n)) % 2

\* qbit_state without the reversal that makes qbit 0 the most significant bit
qbit_state_lsb(q, N, s) == int_bit(s, q)

\* state of qbit q (of N) in the enumerated state s
qbit_state(q, N, s) == int_bit(s, N - 1 - q)

\* bit_int with qbit 0 as the least significant bit
bit_int_lsb(q, N) == Pow2(q)

\* integer of the 'on' state of qbit q (of N)
bit_int(q, N) == Pow2(N - 1 - q)

\* sum over q = 0..Len(qs)-1 of bit_int(qs.at(q), N) where qbit q of the
\* enumerated state s (of Len(qs) qbits) is on: the inner q-loops of act and
\* ptrace
RECURSIVE BitSumFrom(_, _, _, _)
BitSumFrom(q, qs, N, s) ==
  IF q >= Len(qs) THEN 0
  ELSE (IF qbit_state(q, Len(qs), s) = 1 THEN bit_int(qs[q + 1], N) ELSE 0)
       + BitSumFrom(q + 1, qs, N, s)
BitSum(qs, N, s) == BitSumFrom(0, qs, N, s)

\* <<BitSum(qs, N, 0), ..., BitSum(qs, N, count-1)>>
RECURSIVE BitSumTable(_, _, _)
BitSumTable(qs, N, count) ==
  IF count = 0 THEN <<>>
  ELSE Append(BitSumTable(qs, N, count - 1), BitSum(qs, N, count - 1))

\* the early return of act: qs_act enumerates all qbits in identity order
act_do_nothing(qs_act, qbits_new) ==
  /\ Len(qs_act) = qbits_new
  /\ \A i \in 0..(qbits_new - 1) : qs_act[i + 1] = i

\* whether act(A, qs_act, qbits_new) trips assert(qbits_old == log2(A.rows()))
act_aborts(A, qs_act, qbits_new) ==
  /\ ~act_do_nothing(qs_act, qbits_new)
  /\ A.dim # Pow2(Len(qs_act))

\* The three nested loops of act assign B(b_m + ig(s), b_n + ig(s)) = A(m, n).
\* Each operator below gives the entries written from one loop position to the
\* end of that loop, as a function from <<b_out, b_in>> to the value that the
\* last assignment left there (f @@ g reads f first: later writes go left).

\* the loop over s, from s on
RECURSIVE act_writes_s(_, _, _, _, _)
act_writes_s(val, b_m, b_n, ig, s) ==
  IF s >= Len(ig) THEN <<>>
  ELSE act_writes_s(val, b_m, b_n, ig, s + 1)
       @@ (<<b_m + ig[s + 1], b_n + ig[s + 1]>> :> val)

\* the loop over the columns n of A, from n on
RECURSIVE act_writes_n(_, _, _, _, _)
act_writes_n(A, bm, ig, m, n) ==
  IF n >= A.dim THEN <<>>
  ELSE act_writes_n(A, bm, ig, m, n + 1)
       @@ act_writes_s(At(A, m, n), bm[m + 1], bm[n + 1], ig, 0)

\* the loop over the rows m of A, from m on
RECURSIVE act_writes_m(_, _, _, _)
act_writes_m(A, bm, ig, m) ==
  IF m >= A.dim THEN <<>>
  ELSE act_writes_m(A, bm, ig, m + 1) @@ act_writes_n(A, bm, ig, m, 0)

\* the matrix that act(A, qs_act, qbits_new) returns when it does not abort
act(A, qs_act, qbits_new) ==
  IF act_do_nothing(qs_act, qbits_new) THEN A
  ELSE
    LET qs_ignore == AscendingFrom(0, qbits_new, (0..(qbits_new - 1)) \ Range(qs_act))
        bm == BitSumTable(qs_act, qbits_new, A.dim)
        ig == BitSumTable(qs_ignore, qbits_new, Pow2(Len(qs_ignore)))
        \* B starts as the zero matrix
    IN [dim |-> Pow2(qbits_new),
        e   |-> act_writes_m(A, bm, ig, 0) @@ Mat(Pow2(qbits_new), ZeroF).e]

\* whether ptrace(A, qs_trace) trips assert(qbits_new == qs_keep.size())
ptrace_aborts(A, qs_trace) ==
  LET qbits_old == Log2Floor(A.dim)
      qs_keep   == AscendingFrom(0, qbits_old, (0..(qbits_old - 1)) \ Range(qs_trace))
  IN qbits_old - Len(qs_trace) # Len(qs_keep)

\* the loop over s of ptrace with `=` in place of `+=`: the last term stays
PtraceSum_assign(A, off, a_m, a_n, s) ==
  At(A, a_m + off[Len(off)], a_n + off[Len(off)])

\* the loop over s of ptrace: the sum of A(a_m + off(s), a_n + off(s))
RECURSIVE PtraceSum(_, _, _, _, _)
PtraceSum(A, off, a_m, a_n, s) ==
  IF s >= Len(off) THEN 0
  ELSE At(A, a_m + off[s + 1], a_n + off[s + 1]) + PtraceSum(A, off, a_m, a_n, s + 1)

\* the matrix that ptrace(A, qs_trace) returns when it does not abort
ptrace(A, qs_trace) ==
  LET qbits_old == Log2Floor(A.dim)
      qbits_new == qbits_old - Len(qs_trace)
      qs_keep   == AscendingFrom(0, qbits_old, (0..(qbits_old - 1)) \ Range(qs_trace))
      \* a_m (a_n) of the loop over the entries of B, and what the loop over s
      \* adds to both
      kp  == BitSumTable(qs_keep, qbits_old, Pow2(qbits_new))
      off == BitSumTable(qs_trace, qbits_old, Pow2(Len(qs_trace)))
      F(m, n) == PtraceSum(A, off, kp[m + 1], kp[n + 1], 0)
  IN Mat(Pow2(qbits_new), F)

\* ------------------------------------------------------------------------
\* Spin clustering (nv-math.cpp)
\* ------------------------------------------------------------------------

\* coupling_strength(nuclei.at(i), nuclei.at(j)): it depends on the two spins
\* through |r| and (hat(r).zhat)^2 only, so it is the same for <<i, j>> and
\* <<j, i>>; c holds it for i < j
coupling_strength(c, i, j) == IF i < j THEN c[<<i, j>>] ELSE c[<<j, i>>]

\* the test of the innermost loop without its !in_vector(k,clustered) half
absorbs_unchecked(c, th, cluster, clustered, ci, k) ==
  coupling_strength(c, cluster[ci + 1], k) >= th

\* the test of the innermost loop with > for its >=
absorbs_strict(c, th, cluster, clustered, ci, k) ==
  /\ ~in_vector(k, clustered)
  /\ coupling_strength(c, cluster[ci + 1], k) > th

\* the test of the innermost loop: nucleus k joins the cluster
absorbs(c, th, cluster, clustered, ci, k) ==
  /\ ~in_vector(k, clustered)
  /\ coupling_strength(c, cluster[ci + 1], k) >= th

\* the loop over k = cluster.at(ci)+1 .. nuclei.size()-1, from k on;
\* gives <<cluster, clustered>>
RECURSIVE cluster_loop_k(_, _, _, _, _, _, _)
cluster_loop_k(c, th, N, cluster, clustered, ci, k) ==
  IF k >= N THEN <<cluster, clustered>>
  ELSE IF absorbs(c, th, cluster, clustered, ci, k)
       THEN cluster_loop_k(c, th, N, Append(cluster, k), Append(clustered, k), ci, k + 1)
       ELSE cluster_loop_k(c, th, N, cluster, clustered, ci, k + 1)

\* the loop over ci = 0 .. cluster.size()-1 (the size grows while it runs),
\* from ci on; gives <<cluster, clustered>>
RECURSIVE cluster_loop_ci(_, _, _, _, _, _)
cluster_loop_ci(c, th, N, cluster, clustered, ci) ==
  IF ci >= Len(cluster) THEN <<cluster, clustered>>
  ELSE LET r == cluster_loop_k(c, th, N, cluster, clustered, ci, cluster[ci + 1] + 1)
       IN cluster_loop_ci(c, th, N, r[1], r[2], ci + 1)

\* the loop over i = 0 .. nuclei.size()-1, from i on; gives clusters
RECURSIVE cluster_loop_i(_, _, _, _, _, _)
cluster_loop_i(c, th, N, clusters, clustered, i) ==
  IF i >= N THEN clusters
  ELSE IF in_vector(i, clustered)
       THEN cluster_loop_i(c, th, N, clusters, clustered, i + 1)
       ELSE LET r == cluster_loop_ci(c, th, N, <<i>>, Append(clustered, i), 0)
            IN cluster_loop_i(c, th, N, Append(clusters, r[1]), r[2], i + 1)

\* cluster_nuclei(nuclei, min_coupling_strength)
cluster_nuclei(c, N, th) == cluster_loop_i(c, th, N, <<>>, <<>>, 0)

\* largest_cluster_size(clusters)
RECURSIVE largest_cluster_size_from(_, _, _)
largest_cluster_size_from(clusters, i, largest_size) ==
  IF i > Len(clusters) THEN largest_size
  ELSE largest_cluster_size_from(clusters, i + 1,
         IF Len(clusters[i]) > largest_size THEN Len(clusters[i]) ELSE largest_size)
largest_cluster_size(clusters) == largest_cluster_size_from(clusters, 1, 0)

\* the pairs i < j of 0..N-1
Pairs(N) == {p \in (0..(N - 1)) \X (0..(N - 1)) : p[1] < p[2]}

\* the coupling tables tried: every table of up to NumSpins nuclei, and the
\* tables of one nucleus more whose couplings among the first NumSpins nuclei
\* are 0 or MaxCoupling
ClusterTables(N) ==
  IF N <= NumSpins THEN [Pairs(N) -> 0..MaxCoupling]
  ELSE {c \in [Pairs(N) -> 0..MaxCoupling] :
          \A p \in Pairs(N - 1) : c[p] \in {0, MaxCoupling}}

ClusterInit ==
  /\ cl_pc = "start"
  /\ cl_N \in 0..(NumSpins + 1)
  /\ cl_c \in ClusterTables(cl_N)
  /\ cl_th \in 0..(MaxCoupling + 1)
  /\ cl_out = <<>>

\* clusters = cluster_nuclei(nuclei, min_coupling_strength)
ClusterCall ==
  /\ cl_pc = "start"
  /\ cl_out' = cluster_nuclei(cl_c, cl_N, cl_th)
  /\ cl_pc' = "done"
  /\ UNCHANGED <<cl_N, cl_c, cl_th>>
  /\ UNCHANGED notCluster

\* ------------------------------------------------------------------------
\* find_target_coupling (nv-math.cpp)
\*
\* Couplings and thresholds are integer multiples of 1/Fine of the weakest
\* coupling.  dcc starts as a power of two and is only doubled and halved;
\* it is halved only from values >= dcc_cutoff/2, so with dcc_cutoff >= 4
\* every value taken is an integer.
\* ------------------------------------------------------------------------

Fine == 2^FineBits

\* the coupling strengths of the nuclei handed to find_target_coupling
FtCouplings == {k * Fine : k \in 1..MaxCoupling}

\* the values of dcc_cutoff tried (0 is not admissible)
FtCutoffs == {0, 4, Fine}

\* the values of initial_cluster_coupling tried
FtInitials == {0, 4, 2 * Fine, 4 * Fine}

\* the loops over i and j > i that find max_coupling, as the largest of the
\* couplings and the 0 that max_coupling starts with
max_coupling(c, N) ==
  CHOOSE m \in {0} \cup {c[p] : p \in Pairs(N)} :
    \A p \in Pairs(N) : c[p] <= m

\* the special case without dcc_cutoff added
target_one_bare(c, N, dcc_cutoff) == max_coupling(c, N)

\* the special case for "clusters" of 1 nucleus: max_coupling + dcc_cutoff
target_one(c, N, dcc_cutoff) == max_coupling(c, N) + dcc_cutoff

\* the test with > for its >=
coupling_too_small_strict(c, N, cluster_coupling, cluster_size_target) ==
  largest_cluster_size(cluster_nuclei(c, N, cluster_coupling)) > cluster_size_target

\* largest_cluster_size(cluster_nuclei(nuclei, cluster_coupling)) >= cluster_size_target
coupling_too_small(c, N, cluster_coupling, cluster_size_target) ==
  largest_cluster_size(cluster_nuclei(c, N, cluster_coupling)) >= cluster_size_target

\* the loop condition with only its first half
loop_goes_on_by_step(dcc, dcc_cutoff, too_small) == dcc >= dcc_cutoff

\* the condition of the while loop
loop_goes_on(dcc, dcc_cutoff, too_small) == dcc >= dcc_cutoff \/ ~too_small

FtInit ==
  /\ ft_pc = "start"
  /\ ft_N \in 0..NumSpins
  /\ ft_c \in [Pairs(ft_N) -> FtCouplings]
  /\ ft_target \in 0..(NumSpins + 1)
  /\ ft_cutoff \in FtCutoffs
  /\ ft_cc \in FtInitials
  /\ ft_dcc = 0
  /\ ft_small = FALSE
  /\ ft_crossed = FALSE
  /\ ft_iter = 0
  /\ ft_ret = 0

\* find_target_coupling up to its while loop
FindTargetCall ==
  /\ ft_pc = "start"
  /\ IF ~(ft_cutoff > 0)
       THEN /\ ft_pc' = "aborted"
            /\ UNCHANGED <<ft_dcc, ft_small, ft_ret>>
       ELSE IF ft_target = 1
         THEN /\ ft_pc' = "returned"
              /\ ft_ret' = target_one(ft_c, ft_N, ft_cutoff)
              /\ UNCHANGED <<ft_dcc, ft_small>>
         ELSE /\ ft_pc' = "loop"
              /\ ft_dcc' = ft_cc \div 4
              /\ ft_small' = coupling_too_small(ft_c, ft_N, ft_cc, ft_target)
              /\ UNCHANGED ft_ret
  /\ UNCHANGED <<ft_N, ft_c, ft_target, ft_cutoff, ft_cc, ft_crossed, ft_iter>>
  /\ UNCHANGED notFt

\* one pass of the while loop
FindTargetPass ==
  /\ ft_pc = "loop"
  /\ loop_goes_on(ft_dcc, ft_cutoff, ft_small)
  /\ ft_iter < MaxIter
  /\ LET cluster_coupling == ft_cc + (IF ft_small THEN ft_dcc ELSE -ft_dcc)
         too_small == coupling_too_small(ft_c, ft_N, cluster_coupling, ft_target)
         crossed   == ft_crossed \/ too_small # ft_small
     IN /\ ft_cc' = cluster_coupling
        /\ ft_small' = too_small
        /\ ft_crossed' = crossed
        /\ ft_dcc' = IF too_small = ft_small
                       THEN (IF ~crossed THEN ft_dcc * 2 ELSE ft_dcc)
                       ELSE ft_dcc \div 2
  /\ ft_iter' = ft_iter + 1
  /\ UNCHANGED <<ft_pc, ft_N, ft_c, ft_target, ft_cutoff, ft_ret>>
  /\ UNCHANGED notFt

\* the while loop ends: return cluster_coupling
FindTargetReturn ==
  /\ ft_pc = "loop"
  /\ ~loop_goes_on(ft_dcc, ft_cutoff, ft_small)
  /\ ft_pc' = "returned"
  /\ ft_ret' = ft_cc
  /\ UNCHANGED <<ft_N, ft_c, ft_target, ft_cutoff, ft_cc, ft_dcc, ft_small,
                 ft_crossed, ft_iter>>
  /\ UNCHANGED notFt

\* ------------------------------------------------------------------------
\* get_cluster_containing_index, get_index_in_cluster (nv-math.cpp)
\* ------------------------------------------------------------------------

\* the pieces of the sequence p from position start on, cut after the
\* positions in cuts
RECURSIVE SplitAt(_, _, _)
SplitAt(p, start, cuts) ==
  IF start > Len(p) THEN <<>>
  ELSE LET stop == CHOOSE e \in start..Len(p) :
                     /\ e \in cuts \cup {Len(p)}
                     /\ \A d \in start..(e - 1) : d \notin cuts
       IN <<SubSeq(p, start, stop)>> \o SplitAt(p, stop + 1, cuts)

\* the values nv.clusters can have for N nuclei once they are clustered:
\* the indices 0..N-1 in some order, cut into clusters
ClusterLists(N) ==
  IF N = 0 THEN {<<>>}
  ELSE {SplitAt(p, 1, cuts) : p \in DistinctSeqs(0..(N - 1), N), cuts \in SUBSET (1..(N - 1))}

\* the assertion of get_cluster_containing_index, with <= for its <
index_in_range_incl(index, N) == index <= N

\* the assertion of get_cluster_containing_index
index_in_range(index, N) == index < N

\* the loops of get_cluster_containing_index from cluster c on: the first c
\* with clusters.at(c).at(s) == index for some s, or -1 when the loops end
RECURSIVE cluster_search(_, _, _)
cluster_search(clusters, index, c) ==
  IF c >= Len(clusters) THEN -1
  ELSE IF \E s \in 0..(Len(clusters[c + 1]) - 1) : clusters[c + 1][s + 1] = index
       THEN c
       ELSE cluster_search(clusters, index, c + 1)

\* the loop of get_index_in_cluster from s on: the first s with
\* cluster.at(s) == index, or -1 when the loop ends
RECURSIVE index_search(_, _, _)
index_search(cluster, index, s) ==
  IF s >= Len(cluster) THEN -1
  ELSE IF cluster[s + 1] = index THEN s
       ELSE index_search(cluster, index, s + 1)

LookupInit ==
  /\ lk_pc = "start"
  /\ lk_N \in 0..NumSpins
  /\ lk_clusters \in ClusterLists(lk_N) \cup {<<>>}
  /\ lk_index \in 0..NumSpins
  /\ lk_which = 0
  /\ lk_ret = 0

\* get_cluster_containing_index(nv, index).  When the loops end without a
\* return the function flows off its end, and the value its caller reads is
\* undefined: any uint
GetClusterContainingIndex ==
  /\ lk_pc = "start"
  /\ IF ~index_in_range(lk_index, lk_N)
       THEN lk_pc' = "aborted" /\ lk_ret' = lk_ret
       ELSE LET c == cluster_search(lk_clusters, lk_index, 0)
            IN IF c >= 0
                 THEN lk_pc' = "returned" /\ lk_ret' = c
                 ELSE lk_pc' = "no_return" /\ lk_ret' \in 0..NumSpins
  /\ UNCHANGED <<lk_N, lk_clusters, lk_index, lk_which>>
  /\ UNCHANGED notLk

\* get_index_in_cluster(index, nv.clusters.at(w - 1)) for a cluster of the
\* system
GetIndexInCluster ==
  /\ lk_pc = "start"
  /\ \E w \in 1..Len(lk_clusters) :
       /\ lk_which' = w
       /\ IF ~in_vector(lk_index, lk_clusters[w])
            THEN lk_pc' = "in_aborted" /\ lk_ret' = lk_ret
            ELSE lk_pc' = "in_returned" /\ lk_ret' = index_search(lk_clusters[w], lk_index, 0)
  /\ UNCHANGED <<lk_N, lk_clusters, lk_index>>
  /\ UNCHANGED notLk

\* ------------------------------------------------------------------------
\* U_int (nv-math.cpp)
\*
\* Positions are integer vectors <<a, b, c>> standing for (a, b, c)/4 lattice
\* constants; the electron is at the origin and ao = (1,1,1)/4, so
\* dot(pos, ao) = (a + b + c)/16.
\* ------------------------------------------------------------------------

\* round(x/d) for d > 0, halves away from zero
round_div(x, d) ==
  IF x >= 0 THEN (2 * x + d) \div (2 * d) ELSE -((2 * (-x) + d) \div (2 * d))

\* positions of carbon sites of the diamond lattice: two in the plane through
\* the electron perpendicular to the NV axis, two on the NV axis, two others
TargetSites ==
  {<<2, -2, 0>>, <<-4, 2, 2>>, <<4, 4, 4>>, <<-3, -3, -3>>, <<2, 2, 0>>, <<3, -1, 1>>}

\* the test `round(4*dot(nv.nuclei.at(index).pos,ao)) == 0.` of U_int
no_perp_test(pos) == round_div(pos[1] + pos[2] + pos[3], 4) = 0

\* whether the component of the hyperfine field A perpendicular to zhat is
\* zero.  A is along zhat - 3 (hat(r).zhat) hat(r) with r = pos, so its
\* perpendicular part is along (r.zhat) (r - (r.zhat) zhat): zero when r is
\* perpendicular to zhat or parallel to it
hyperfine_perp_zero(pos) ==
  LET sum == pos[1] + pos[2] + pos[3]
  IN \/ sum = 0
     \/ 3 * pos[1] = sum /\ 3 * pos[2] = sum /\ 3 * pos[3] = sum

NoCall == [kind |-> "none", dim |-> 0, diagnostic |-> "none", simulate_calls |-> 0]

\* what U_int does once the cluster of the target is known: cluster is
\* nv.clusters.at(cluster)
U_int(cluster, pos, pair, exact, f_ok) ==
  LET spins == Len(cluster) + 1
  IN IF exact
       THEN [pc |-> "returned",
             out |-> [kind |-> "exact", dim |-> Pow2(spins), diagnostic |-> "none",
                      simulate_calls |-> 0]]
     ELSE IF no_perp_test(pos)
       THEN [pc |-> "returned",
             out |-> [kind |-> "identity", dim |-> Pow2(spins),
                      diagnostic |-> "no_perp", simulate_calls |-> 0]]
     ELSE IF pair /\ Len(cluster) >= 2
       THEN [pc |-> "returned",
             out |-> [kind |-> "identity", dim |-> Pow2(spins),
                      diagnostic |-> "larmor_pair", simulate_calls |-> 0]]
     ELSE IF hyperfine_perp_zero(pos) \/ ~f_ok
       \* f_DD = dw_min/(hyperfine_perp.norm()*nv.scale_factor) is outside the
       \* range of axy_pulse_times: the first simulate_propagator aborts
       THEN [pc |-> "aborted",
             out |-> [kind |-> "none", dim |-> 0, diagnostic |-> "none",
                      simulate_calls |-> 1]]
     ELSE [pc |-> "returned",
           out |-> [kind |-> "propagator", dim |-> Pow2(spins), diagnostic |-> "none",
                    simulate_calls |-> 2]]

UIntInit ==
  /\ ui_pc = "start"
  /\ ui_N \in 1..NumSpins
  /\ ui_clusters \in ClusterLists(ui_N)
  /\ ui_index \in 0..NumSpins
  /\ ui_pos \in TargetSites
  /\ ui_pair \in BOOLEAN
  /\ ui_exact \in BOOLEAN
  /\ ui_f_ok \in BOOLEAN
  /\ ui_out = NoCall

\* U_int(nv, index, k_DD, ..., exact): the two lookups, then the rest
UIntCall ==
  /\ ui_pc = "start"
  /\ IF ~index_in_range(ui_index, ui_N)
       THEN ui_pc' = "aborted" /\ ui_out' = NoCall
       ELSE LET cluster == cluster_search(ui_clusters, ui_index, 0)
                r == U_int(ui_clusters[cluster + 1], ui_pos, ui_pair, ui_exact, ui_f_ok)
            IN ui_pc' = r.pc /\ ui_out' = r.out
  /\ UNCHANGED <<ui_N, ui_clusters, ui_index, ui_pos, ui_pair, ui_exact, ui_f_ok>>
  /\ UNCHANGED notUi

\* ------------------------------------------------------------------------
\* gate_fidelity (qp-math.cpp)
\*
\* A complex matrix is [dim, den, e]: the entry at <<r, c>> is
\* (e[<<r, c>>][1] + i e[<<r, c>>][2]) / den, with integer parts.
\* ------------------------------------------------------------------------

\* sums, products and conjugates of complex numbers <<re, im>>
cadd(a, b) == <<a[1] + b[1], a[2] + b[2]>>
cmul(a, b) == <<a[1] * b[1] - a[2] * b[2], a[1] * b[2] + a[2] * b[1]>>
conj(a) == <<a[1], -a[2]>>
real(a) == a[1]

CMat(d, s, e) == [dim |-> d, den |-> s, e |-> e]

\* M.adjoint()
adjoint(M) ==
  CMat(M.dim, M.den, [rc \in DOMAIN M.e |-> conj(M.e[<<rc[2], rc[1]>>])])

\* the sum over k of A(r,k) B(k,c), from k on
RECURSIVE cprod_entry(_, _, _, _, _)
cprod_entry(A, B, r, c, k) ==
  IF k >= A.dim THEN <<0, 0>>
  ELSE cadd(cmul(A.e[<<r, k>>], B.e[<<k, c>>]), cprod_entry(A, B, r, c, k + 1))

\* A * B for two square matrices of one dimension
cprod(A, B) ==
  CMat(A.dim, A.den * B.den, [rc \in DOMAIN A.e |-> cprod_entry(A, B, rc[1], rc[2], 0)])

\* the numerator of trace(M), from the diagonal entry i on
RECURSIVE ctrace_from(_, _)
ctrace_from(M, i) ==
  IF i >= M.dim THEN <<0, 0>> ELSE cadd(M.e[<<i, i>>], ctrace_from(M, i + 1))

\* trace(M): the complex number ctrace(M) / M.den
ctrace(M) == ctrace_from(M, 0)

\* gate_fidelity without the trace(M)*conj(trace(M)) term
gate_fidelity_notrace(U, G) ==
  LET D == U.dim
      M == cprod(adjoint(G), U)
  IN <<real(ctrace(cprod(adjoint(M), M))), M.den * M.den * D * (D + 1)>>

\* gate_fidelity(U, G), as <<numerator, denominator>>: trace(M.adjoint()*M)
\* and trace(M)*conj(trace(M)) both have the denominator M.den^2
gate_fidelity(U, G) ==
  LET D == U.dim
      M == cprod(adjoint(G), U)
  IN <<real(cadd(ctrace(cprod(adjoint(M), M)), cmul(ctrace(M), conj(ctrace(M))))),
       M.den * M.den * D * (D + 1)>>

\* kroneckerProduct(A,B) of complex matrices
ctp(A, B) ==
  CMat(A.dim * B.dim, A.den * B.den,
       [rc \in (0..(A.dim * B.dim - 1)) \X (0..(A.dim * B.dim - 1)) |->
          cmul(A.e[<<rc[1] \div B.dim, rc[2] \div B.dim>>],
               B.e[<<rc[1] % B.dim, rc[2] % B.dim>>])])

\* a 2x2 matrix (a b ; c d) / s
M2(s, a, b, c, d) ==
  CMat(2, s, (<<0, 0>> :> a) @@ (<<0, 1>> :> b) @@ (<<1, 0>> :> c) @@ (<<1, 1>> :> d))

\* the matrix with 1 at <<r, perm[r+1]>> for every row r, 0 elsewhere
PermMat(perm) ==
  CMat(Len(perm), 1,
       [rc \in (0..(Len(perm) - 1)) \X (0..(Len(perm) - 1)) |->
          IF perm[rc[1] + 1] = rc[2] THEN <<1, 0>> ELSE <<0, 0>>])

\* single-qbit gates: I, sx, sy, sz, the phase gate, a rotation with
\* rational entries, and the projector dn*dn.adjoint() (not unitary)
Gates1 ==
  { M2(1, <<1, 0>>, <<0, 0>>, <<0, 0>>, <<1, 0>>),
    M2(1, <<0, 0>>, <<1, 0>>, <<1, 0>>, <<0, 0>>),
    M2(1, <<0, 0>>, <<0, -1>>, <<0, 1>>, <<0, 0>>),
    M2(1, <<1, 0>>, <<0, 0>>, <<0, 0>>, <<-1, 0>>),
    M2(1, <<1, 0>>, <<0, 0>>, <<0, 0>>, <<0, 1>>),
    M2(5, <<3, 0>>, <<4, 0>>, <<-4, 0>>, <<3, 0>>),
    M2(1, <<0, 0>>, <<0, 0>>, <<0, 0>>, <<1, 0>>) }

\* two-qbit gates: products of single-qbit gates, the controlled-not and SWAP
Gates2 ==
  {ctp(a, b) : a, b \in Gates1} \cup {PermMat(<<0, 1, 3, 2>>), PermMat(<<0, 2, 1, 3>>)}

FidInit ==
  /\ fid_pc = "start"
  /\ fid_U \in Gates1 \cup Gates2
  /\ fid_G \in Gates1 \cup Gates2
  /\ fid_out = <<0, 1>>

\* gate_fidelity(U, G): assert(U.size() == G.size()), then the fidelity
GateFidelityCall ==
  /\ fid_pc = "start"
  /\ IF fid_U.dim * fid_U.dim # fid_G.dim * fid_G.dim
     THEN fid_pc' = "aborted" /\ fid_out' = fid_out
     ELSE fid_pc' = "done" /\ fid_out' = gate_fidelity(fid_U, fid_G)
  /\ UNCHANGED <<fid_U, fid_G>>
  /\ UNCHANGED notFid

\* ------------------------------------------------------------------------
\* AXY pulse times (nv-math.cpp)
\* ------------------------------------------------------------------------

\* 8*cos(pi/9)-4 = 3.5175..., in halves: |f*pi| < 3.5175... iff |fp| <= 7
FpLimit1 == 7

\* the bound 4 of harmonic 3, in halves: |f*pi| < 4 iff |fp| < 8
FpLimit3 == 8

Abs(x) == IF x < 0 THEN -x ELSE x

\* axy_aborts with the assertion on the harmonic only
axy_aborts_harmonic(k, fp) == ~(k = 1 \/ k = 3)

\* whether axy_pulse_times(k, f) trips one of its assertions
axy_aborts(k, fp) ==
  \/ ~(k = 1 \/ k = 3)
  \/ k = 1 /\ ~(Abs(fp) <= FpLimit1)
  \/ k = 3 /\ ~(Abs(fp) < FpLimit3)

\* The first two pulse times x1 and x2 are closed forms in f*pi, built from
\* sqrt and atan.  For harmonic 3, q1 > 2 > q2 > 1 puts atan(sqrt(q1*q1-1))
\* above pi/3 and atan(sqrt(q2*q2-1)) below it: 0 < x1 < 1/12 < x2 < 1/4.
\* For harmonic 1, 0 < x1 < x2 < 1/4.  The model draws x1 and x2 from the
\* grid points in these ranges.
FirstTwo(k) ==
  {x \in (1..(Quarter - 1)) \X (1..(Quarter - 1)) :
     /\ x[1] < x[2]
     /\ k = 3 => (12 * x[1] < Den /\ Den < 12 * x[2])}

\* the vector with the entries 1/2 - x2 and 1/2 - x1 in each other's place
axy_pulse_times_swapped(x1, x2) ==
  <<0, x1, x2, Quarter, 2 * Quarter - x1, 2 * Quarter - x2,
    2 * Quarter + x1, 2 * Quarter + x2, 3 * Quarter, Den - x2, Den - x1, Den>>

\* the vector that axy_pulse_times builds from x1 and x2
axy_pulse_times(x1, x2) ==
  <<0, x1, x2, Quarter, 2 * Quarter - x2, 2 * Quarter - x1,
    2 * Quarter + x1, 2 * Quarter + x2, 3 * Quarter, Den - x2, Den - x1, Den>>

\* Fractions of a period are held as multiples of 1/one: the number 1 is
\* `one`, and floor(a) of the fraction a/one is one * (a \div one).

\* advance - floor(advance) without the floor
normed_noflr(advance, one) == advance

\* advance - floor(advance)
normed(advance, one) == advance - one * (advance \div one)

\* the loop of advanced_pulse_times without its test `>= 0`
RECURSIVE advanced_loop_unfiltered(_, _, _, _, _, _)
advanced_loop_unfiltered(pulse_times, normed_advance, one, N, out, p) ==
  IF p >= 2 * N THEN out
  ELSE LET v    == (p \div N) * one + pulse_times[(p % N) + 2] - normed_advance
           out1 == Append(out, v)
       IN IF Len(out1) = N + 1 THEN out1
          ELSE advanced_loop_unfiltered(pulse_times, normed_advance, one, N, out1, p + 1)

\* the loop of advanced_pulse_times over p = 0 .. 2N-1, from p on; out is
\* advanced_pulse_times so far
RECURSIVE advanced_loop(_, _, _, _, _, _)
advanced_loop(pulse_times, normed_advance, one, N, out, p) ==
  IF p >= 2 * N THEN out
  ELSE LET v    == (p \div N) * one + pulse_times[(p % N) + 2] - normed_advance
           out1 == IF v >= 0 THEN Append(out, v) ELSE out
       IN IF Len(out1) = N + 1 THEN out1
          ELSE advanced_loop(pulse_times, normed_advance, one, N, out1, p + 1)

\* advanced_pulse_times(pulse_times, advance)
advanced_pulse_times(pulse_times, advance, one) ==
  LET normed_advance == normed(advance, one)
  IN IF normed_advance = 0 THEN pulse_times
     ELSE Append(advanced_loop(pulse_times, normed_advance, one,
                               Len(pulse_times) - 2, <<0>>, 0),
                 one)

\* non-decreasing sequences of length len over 0..Den-1
SortedMarkers(len) ==
  {m \in [1..len -> 0..(Den - 1)] : \A i \in 1..(len - 1) : m[i] <= m[i + 1]}

\* schedules a caller may hand to advanced_pulse_times: 0, non-decreasing
\* interior markers in [0,1), 1
Schedules ==
  UNION {{<<0>> \o m \o <<Den>> : m \in SortedMarkers(len)} : len \in 0..MaxMarkers}

PulseInit ==
  /\ \/ /\ pu_pc = "start"
        /\ pu_k \in 0..MaxHarmonic
        /\ pu_fp \in (-MaxFp)..MaxFp
        /\ pu_in = <<>>
     \/ /\ pu_pc = "have_pulses"
        /\ pu_k = 0
        /\ pu_fp = 0
        /\ pu_in \in Schedules
  /\ pu_adv = 0
  /\ pu_shift = 0
  /\ pu_out = <<>>
  /\ pu_out2 = <<>>

\* pulses = axy_pulse_times(k, f)
AxyCall ==
  /\ pu_pc = "start"
  /\ IF axy_aborts(pu_k, pu_fp)
       THEN /\ pu_pc' = "axy_aborted"
            /\ pu_in' = <<>>
       ELSE \E x \in FirstTwo(pu_k) :
              /\ pu_pc' = "have_pulses"
              /\ pu_in' = axy_pulse_times(x[1], x[2])
  /\ UNCHANGED <<pu_k, pu_fp, pu_adv, pu_shift, pu_out, pu_out2>>
  /\ UNCHANGED notPulse

\* advanced_pulse_times(pulses, advance), and the same with the advance
\* shifted by a whole number of periods
AdvanceCall ==
  /\ pu_pc = "have_pulses"
  /\ \E adv \in (-Den)..Den : \E m \in (-MaxShift)..MaxShift :
       /\ pu_adv' = adv
       /\ pu_shift' = m
       /\ pu_out' = advanced_pulse_times(pu_in, adv, Den)
       /\ pu_out2' = advanced_pulse_times(pu_in, adv + m * Den, Den)
  /\ pu_pc' = "advanced"
  /\ UNCHANGED <<pu_k, pu_fp, pu_in>>
  /\ UNCHANGED notPulse

\* ------------------------------------------------------------------------
\* is_larmor_pair, group_clusters (nv-math.cpp)
\*
\* Positions are in units of a quarter lattice constant, as for U_int; the
\* electron is at the origin.
\* ------------------------------------------------------------------------

\* round(16*abs(dot(r,ao))) with ao = (1,1,1)/4
par(pos) == Abs(pos[1] + pos[2] + pos[3])

\* round(12*(r-dot(r,zhat)*zhat).squaredNorm()) with zhat = (1,1,1)/sqrt(3):
\* the squared norm is (3 r.r - (r1+r2+r3)^2)/3
perp(pos) ==
  LET sum == pos[1] + pos[2] + pos[3]
      rr  == pos[1] * pos[1] + pos[2] * pos[2] + pos[3] * pos[3]
  IN round_div(3 * rr - sum * sum, 4)

\* is_larmor_pair(nv, idx1, idx2)
is_larmor_pair(pos, idx1, idx2) ==
  par(pos[idx1 + 1]) = par(pos[idx2 + 1]) /\ perp(pos[idx1 + 1]) = perp(pos[idx2 + 1])

\* the loop over j with only its first pass
has_pair_first(pos, member, old_cluster, j) ==
  j < Len(old_cluster) /\ is_larmor_pair(pos, member, old_cluster[1])

\* the loop over j = 0 .. old_clusters.at(c).size()-1, from j on: whether it
\* finds a larmor pair of new_cluster.at(i), here `member`
RECURSIVE has_pair(_, _, _, _)
has_pair(pos, member, old_cluster, j) ==
  IF j >= Len(old_cluster) THEN FALSE
  ELSE IF is_larmor_pair(pos, member, old_cluster[j + 1]) THEN TRUE
       ELSE has_pair(pos, member, old_cluster, j + 1)

\* old_clusters.erase(old_clusters.begin()+c)
erase(list, c) == SubSeq(list, 1, c) \o SubSeq(list, c + 2, Len(list))

\* the loop over c = 0 .. old_clusters.size()-1, from c on; after a cluster
\* is taken, c-- and the c++ of the loop leave c where it is;
\* st = [new_cluster, old_clusters, grouped]
RECURSIVE group_loop_c(_, _, _, _)
group_loop_c(pos, st, i, c) ==
  IF c >= Len(st.old_clusters) THEN st
  ELSE IF has_pair(pos, st.new_cluster[i + 1], st.old_clusters[c + 1], 0)
       THEN group_loop_c(pos,
              [new_cluster  |-> st.new_cluster \o st.old_clusters[c + 1],
               old_clusters |-> erase(st.old_clusters, c),
               grouped      |-> TRUE],
              i, c)
       ELSE group_loop_c(pos, st, i, c + 1)

\* the loop over i = 0 .. new_cluster.size()-1 (the size grows while it
\* runs), from i on
RECURSIVE group_loop_i(_, _, _)
group_loop_i(pos, st, i) ==
  IF i >= Len(st.new_cluster) THEN st
  ELSE group_loop_i(pos, group_loop_c(pos, st, i, 0), i + 1)

\* the while loop of group_clusters
RECURSIVE group_while(_, _, _)
group_while(pos, old_clusters, new_clusters) ==
  IF Len(old_clusters) = 0 THEN new_clusters
  ELSE LET st == group_loop_i(pos,
                   [new_cluster  |-> Head(old_clusters),
                    old_clusters |-> Tail(old_clusters),
                    grouped      |-> FALSE], 0)
       IN group_while(pos, st.old_clusters,
            Append(new_clusters,
                   IF st.grouped THEN st.new_cluster ELSE Head(old_clusters)))

\* group_clusters(nv)
group_clusters(pos, clusters) == group_while(pos, clusters, <<>>)

\* positions of carbon sites around the electron: three with the same
\* distances along and across the NV axis, two more that share theirs, one
\* on the axis
GroupSites ==
  {<<2, 2, 0>>, <<2, 0, 2>>, <<-2, -2, 0>>, <<2, -2, 0>>, <<-2, 0, 2>>, <<1, 1, 1>>}

\* the values of nv.clusters that cluster_nuclei can leave: every cluster
\* starts with its smallest index, and the clusters stand in the order of these
GroupInputs(N) ==
  {cl \in ClusterLists(N) :
     /\ \A a \in 1..Len(cl) : \A b \in 1..Len(cl[a]) : cl[a][1] <= cl[a][b]
     /\ \A a \in 1..(Len(cl) - 1) : cl[a][1] < cl[a + 1][1]}

GroupInit ==
  /\ gc_pc = "start"
  /\ gc_N \in 0..(NumSpins + 1)
  /\ gc_clusters \in GroupInputs(gc_N)
  /\ gc_pos \in DistinctSeqs(GroupSites, gc_N)
  /\ gc_out = <<>>

\* group_clusters(nv)
GroupClustersCall ==
  /\ gc_pc = "start"
  /\ gc_out' = group_clusters(gc_pos, gc_clusters)
  /\ gc_pc' = "done"
  /\ UNCHANGED <<gc_N, gc_pos, gc_clusters>>
  /\ UNCHANGED notGc

\* ------------------------------------------------------------------------
\* mvec (qp-math.h)
\*
\* An mvec holds a vector v of matrices.  The matrices of the model are
\* 1 x 1 with an integer entry, written as that entry.
\* ------------------------------------------------------------------------

\* the largest size of an mvec
MvecSize == 2

\* the entries tried: even, so that the quotients by the scalars are entries
MvecEntries == {-2, 0, 2}

\* the scalars tried for s
MvecScalars == {-2, -1, 1, 2}

\* the loop `v.at(i) += w.at(i)` over i = 0 .. v.size()-1
mvec_add(v, w) == [i \in 1..Len(v) |-> v[i] + w[i]]

\* the loop `v.at(i) -= w.at(i)`
mvec_sub(v, w) == [i \in 1..Len(v) |-> v[i] - w[i]]

\* the loop `v.at(i) *= s` with the scalar n/d
mvec_scale(v, n, d) == [i \in 1..Len(v) |-> (v[i] * n) \div d]

\* the loop `v.at(i) *= G`
mvec_mul(v, G) == [i \in 1..Len(v) |-> v[i] * G]

MvecInit ==
  /\ mv_pc = "start"
  /\ mv_v \in UNION {[1..n -> MvecEntries] : n \in 0..MvecSize}
  /\ mv_w \in UNION {[1..n -> MvecEntries] : n \in 0..MvecSize}
  /\ mv_s \in MvecScalars
  /\ mv_G \in -1..1
  /\ mv_ret = <<>>

\* v + w: operator+ adds w to the member v of the left operand in place
\* and returns a copy of the left operand
MvecPlus ==
  /\ mv_pc = "start"
  /\ IF Len(mv_v) # Len(mv_w)
       THEN mv_pc' = "aborted" /\ UNCHANGED <<mv_v, mv_ret>>
       ELSE /\ mv_v' = mvec_add(mv_v, mv_w)
            /\ mv_ret' = mv_v'
            /\ mv_pc' = "done"
  /\ UNCHANGED <<mv_w, mv_s, mv_G>>
  /\ UNCHANGED notMv

\* v - w
MvecMinus ==
  /\ mv_pc = "start"
  /\ IF Len(mv_v) # Len(mv_w)
       THEN mv_pc' = "aborted" /\ UNCHANGED <<mv_v, mv_ret>>
       ELSE /\ mv_v' = mvec_sub(mv_v, mv_w)
            /\ mv_ret' = mv_v'
            /\ mv_pc' = "done"
  /\ UNCHANGED <<mv_w, mv_s, mv_G>>
  /\ UNCHANGED notMv

\* v * s
MvecTimesScalar ==
  /\ mv_pc = "start"
  /\ mv_v' = mvec_scale(mv_v, mv_s, 1)
  /\ mv_ret' = mv_v'
  /\ mv_pc' = "done"
  /\ UNCHANGED <<mv_w, mv_s, mv_G>>
  /\ UNCHANGED notMv

\* v / s, which is *this * (1/s)
MvecOverScalar ==
  /\ mv_pc = "start"
  /\ mv_v' = mvec_scale(mv_v, 1, mv_s)
  /\ mv_ret' = mv_v'
  /\ mv_pc' = "done"
  /\ UNCHANGED <<mv_w, mv_s, mv_G>>
  /\ UNCHANGED notMv

\* v * G
MvecTimesMatrix ==
  /\ mv_pc = "start"
  /\ mv_v' = mvec_mul(mv_v, mv_G)
  /\ mv_ret' = mv_v'
  /\ mv_pc' = "done"
  /\ UNCHANGED <<mv_w, mv_s, mv_G>>
  /\ UNCHANGED notMv

\* s * v, the free operator*(double, mvec&), which is v*s on its argument
ScalarTimesMvec ==
  /\ mv_pc = "start"
  /\ mv_v' = mvec_scale(mv_v, mv_s, 1)
  /\ mv_ret' = mv_v'
  /\ mv_pc' = "done"
  /\ UNCHANGED <<mv_w, mv_s, mv_G>>
  /\ UNCHANGED notMv

\* ------------------------------------------------------------------------
\* simulate_propagator (nv-math.cpp)
\*
\* A propagator is the list of the factors multiplied into it, first factor
\* first: the flip X = act(sx,{0},spins) and exp(-j*len*H) with H taken at a
\* given time.  Two facts about the factors are used: exp of the zero matrix
\* is the identity, and X*X is the identity.  The empty list is the identity.
\* ------------------------------------------------------------------------

\* the AXY period t_DD = 2*pi/w_DD, in ticks: a pulse time fraction of 1/Den
\* is two ticks
t_DD == 2 * Den

\* the flip X
TokX == [op |-> "X", len |-> 0, at2 |-> 0]

\* exp(-j*len*H), H taken with the control field at time at2/2 (at2 = -1: the
\* static Hamiltonian of the static-field overload)
TokE(len, at2) == [op |-> "E", len |-> len, at2 |-> at2]

\* U = (tok * U).eval()
Mul(tok, U) ==
  IF tok.op = "E" /\ tok.len = 0 THEN U
  ELSE IF tok.op = "X" /\ U # <<>> /\ U[Len(U)].op = "X" THEN SubSeq(U, 1, Len(U) - 1)
  ELSE Append(U, tok)

\* W * U for a product W of factors; as with .eval() in the source, each
\* product is formed before the next factor is multiplied into it
RECURSIVE MulAll(_, _)
MulAll(W, U) ==
  IF W = <<>> THEN U
  ELSE LET V == Mul(Head(W), U)
       IN CASE V = <<>> -> MulAll(Tail(W), <<>>)
            [] V # <<>> -> MulAll(Tail(W), V)

\* pow(W, n) * U
RECURSIVE MulPow(_, _, _)
MulPow(W, n, U) ==
  IF n <= 0 THEN U
  ELSE LET V == MulAll(W, U)
       IN CASE V = <<>> -> MulPow(W, n - 1, <<>>)
            [] V # <<>> -> MulPow(W, n - 1, V)

\* pulse times of one period in ticks
pulse_ticks(x) == [i \in 1..12 |-> 2 * axy_pulse_times(x[1], x[2])[i]]

\* the same loop with <= for its <
RECURSIVE initial_pulse_count_incl(_, _, _)
initial_pulse_count_incl(pulses, normed_advance, i) ==
  IF i > Len(pulses) - 2 THEN 0
  ELSE IF pulses[i + 1] <= normed_advance
       THEN 1 + initial_pulse_count_incl(pulses, normed_advance, i + 1)
       ELSE 0

\* the loop `if(pulses.at(i) < normed_advance) pulse_count++; else break;`
\* over i = 1 .. pulses.size()-2, from i on
RECURSIVE initial_pulse_count(_, _, _)
initial_pulse_count(pulses, normed_advance, i) ==
  IF i > Len(pulses) - 2 THEN 0
  ELSE IF pulses[i + 1] < normed_advance
       THEN 1 + initial_pulse_count(pulses, normed_advance, i + 1)
       ELSE 0

\* simulation_time/t_DD rounded to the nearest integer
whole_periods_nearest(simulation_time) == (2 * simulation_time + t_DD) \div (2 * t_DD)

\* int(simulation_time/t_DD) for simulation_time >= 0
whole_periods(simulation_time) == simulation_time \div t_DD

\* the loop that builds U_AXY over i = 1 .. advanced_pulses.size()-1, from i on
RECURSIVE U_AXY_loop(_, _, _)
U_AXY_loop(advanced_pulses, U_AXY, i) ==
  IF i > Len(advanced_pulses) - 1 THEN U_AXY
  ELSE LET V == Mul(TokX, Mul(TokE(advanced_pulses[i + 1] - advanced_pulses[i], -1), U_AXY))
       IN CASE V = <<>> -> U_AXY_loop(advanced_pulses, <<>>, i + 1)
            [] V # <<>> -> U_AXY_loop(advanced_pulses, V, i + 1)

\* the loop over the remainder of the sequence, i = 1 .. advanced_pulses.size()-1,
\* from i on; st = [U, pulse_count]
RECURSIVE remainder_loop(_, _, _, _)
remainder_loop(advanced_pulses, remaining_time, st, i) ==
  IF i > Len(advanced_pulses) - 1 THEN st
  ELSE IF advanced_pulses[i + 1] < remaining_time
       THEN LET st1 == [U |-> Mul(TokX, Mul(TokE(advanced_pulses[i + 1] - advanced_pulses[i], -1), st.U)),
                        pulse_count |-> st.pulse_count + 1]
            IN CASE st1.pulse_count > 0 ->
                 remainder_loop(advanced_pulses, remaining_time, st1, i + 1)
       ELSE [U |-> Mul(TokE(remaining_time - advanced_pulses[i], -1), st.U),
             pulse_count |-> st.pulse_count]

\* simulate_propagator(nv, cluster, w_DD, k_DD, f_DD, simulation_time, advance)
simulate_static(x, simulation_time, advance) ==
  LET normed_advance  == normed(advance, t_DD)
      pulses          == pulse_ticks(x)
      advanced_pulses == advanced_pulse_times(pulses, normed_advance, t_DD)
      count0 == initial_pulse_count(pulses, normed_advance, 1)
      U0     == IF count0 % 2 # 0 THEN Mul(TokX, <<>>) ELSE <<>>
      U_AXY  == Mul(TokX, U_AXY_loop(advanced_pulses, <<>>, 1))
      U1     == IF simulation_time >= t_DD
                THEN MulPow(U_AXY, whole_periods(simulation_time), U0)
                ELSE U0
      remaining_time == simulation_time - whole_periods(simulation_time) * t_DD
      st     == remainder_loop(advanced_pulses, remaining_time,
                               [U |-> U1, pulse_count |-> count0], 1)
      U2     == IF st.pulse_count % 2 # 0 THEN Mul(TokX, st.U) ELSE st.U
  IN [U |-> U2, count0 |-> count0, pulse_count |-> st.pulse_count,
      periods |-> IF simulation_time >= t_DD THEN whole_periods(simulation_time) ELSE 0,
      steps |-> <<>>, normalized |-> TRUE]

\* int(simulation_time/dt+0.5) with the truncation replaced by rounding up
integration_steps_up(simulation_time, dt) == (2 * simulation_time + dt + 2 * dt - 1) \div (2 * dt)

\* int(simulation_time/dt+0.5) for simulation_time >= 0
integration_steps(simulation_time, dt) == (2 * simulation_time + dt) \div (2 * dt)

\* the search `for p: if(pulses.at(p)*t_DD > t && pulses.at(p)*t_DD < t + dt)`
\* over p = 1 .. pulses.size()-2, from p on; 0 when no pulse is found
RECURSIVE find_pulse(_, _, _, _)
find_pulse(pulses, t, dt, p) ==
  IF p > Len(pulses) - 2 THEN 0
  ELSE IF pulses[p + 1] > t /\ pulses[p + 1] < t + dt THEN p
       ELSE find_pulse(pulses, t, dt, p + 1)

\* one pass of the integration loop at step t_i; st = [U, pulse_count, steps]
integration_step(pulses, simulation_time, advance, dt, st, t_i) ==
  LET t     == t_i * dt + dt \div 2 + advance
      pulse == find_pulse(pulses, t, dt, 1)
  IN IF pulse = 0
     THEN IF t + dt < simulation_time
          THEN [U |-> Mul(TokE(dt, 2 * t), st.U),
                pulse_count |-> st.pulse_count,
                steps |-> Append(st.steps, [t |-> t, pulse |-> 0, lens |-> <<dt>>])]
          ELSE LET dtf == simulation_time - t
               IN [U |-> Mul(TokE(dtf, 2 * t + dtf), st.U),
                   pulse_count |-> st.pulse_count,
                   steps |-> Append(st.steps, [t |-> t, pulse |-> 0, lens |-> <<dtf>>])]
     ELSE LET dt1 == pulses[pulse + 1] - t
              dt2 == t + dt - pulses[pulse + 1]
          IN [U |-> Mul(TokE(dt2, 2 * (t + dt) - dt2),
                        Mul(TokX, Mul(TokE(dt1, 2 * t + dt1), st.U))),
              pulse_count |-> st.pulse_count + 1,
              steps |-> Append(st.steps, [t |-> t, pulse |-> pulse, lens |-> <<dt1, dt2>>])]

\* the integration loop over t_i = 0 .. integration_steps-1, from t_i on; every
\* pass is complete, its step recorded, before the next one begins
RECURSIVE integration_loop(_, _, _, _, _, _)
integration_loop(pulses, simulation_time, advance, dt, st, t_i) ==
  IF t_i >= integration_steps(simulation_time, dt) THEN st
  ELSE LET st1 == integration_step(pulses, simulation_time, advance, dt, st, t_i)
       IN CASE st1.steps # <<>> ->
            integration_loop(pulses, simulation_time, advance, dt, st1, t_i + 1)

\* simulate_propagator(nv, cluster, w_DD, k_DD, f_DD, simulation_time, controls, advance)
simulate_dynamic(x, simulation_time, advance, dt) ==
  LET normed_advance == normed(advance, t_DD)
      pulses == pulse_ticks(x)
      count0 == initial_pulse_count(pulses, normed_advance, 1)
      U0     == IF count0 % 2 # 0 THEN Mul(TokX, <<>>) ELSE <<>>
      st     == integration_loop(pulses, simulation_time, advance, dt,
                                 [U |-> U0, pulse_count |-> count0, steps |-> <<>>], 0)
      U2     == IF st.pulse_count % 2 # 0 THEN Mul(TokX, st.U) ELSE st.U
  IN [U |-> U2, count0 |-> count0, pulse_count |-> st.pulse_count,
      periods |-> 0, steps |-> st.steps, normalized |-> TRUE]

\* the passes of the loop that may begin after the caller has asked the run
\* to stop, for the run to count as stopped in time
CancelGrace == 1

\* the state of simulate_propagator when its integration loop begins
RunInit ==
  /\ rn_pc = "loop"
  /\ rn_x \in FirstTwo(1)
  /\ rn_time \in 0..(t_DD + Slack)
  /\ rn_adv \in {0, Slack}
  /\ rn_dt \in {dt \in 1..t_DD : dt % 2 = 0 /\ 628 * dt <= 100 * t_DD}
  /\ rn_t_i = 0
  /\ LET count0 == initial_pulse_count(pulse_ticks(rn_x), normed(rn_adv, t_DD), 1)
     IN rn_st = [U |-> IF count0 % 2 # 0 THEN Mul(TokX, <<>>) ELSE <<>>,
                 pulse_count |-> count0, steps |-> <<>>]
  /\ rn_cancel = FALSE
  /\ rn_since = 0

\* one pass of `for(uint t_i = 0; t_i < integration_steps; t_i++)`
LoopPass ==
  /\ rn_pc = "loop"
  /\ rn_t_i < integration_steps(rn_time, rn_dt)
  /\ rn_st' = integration_step(pulse_ticks(rn_x), rn_time, rn_adv, rn_dt, rn_st, rn_t_i)
  /\ rn_t_i' = rn_t_i + 1
  /\ rn_since' = IF rn_cancel THEN rn_since + 1 ELSE rn_since
  /\ UNCHANGED <<rn_pc, rn_x, rn_time, rn_adv, rn_dt, rn_cancel>>
  /\ UNCHANGED notRun

\* the loop ends when t_i reaches integration_steps
LoopExit ==
  /\ rn_pc = "loop"
  /\ ~(rn_t_i < integration_steps(rn_time, rn_dt))
  /\ rn_pc' = "done"
  /\ UNCHANGED <<rn_x, rn_time, rn_adv, rn_dt, rn_t_i, rn_st, rn_cancel, rn_since>>
  /\ UNCHANGED notRun

\* the caller asks the run to stop while the loop runs; simulate_propagator
\* has no parameter and reads no variable through which it could learn of it
RequestCancel ==
  /\ rn_pc = "loop"
  /\ ~rn_cancel
  /\ rn_cancel' = TRUE
  /\ UNCHANGED <<rn_pc, rn_x, rn_time, rn_adv, rn_dt, rn_t_i, rn_st, rn_since>>
  /\ UNCHANGED notRun

\* the (k, f*pi) pairs tried: two that axy_pulse_times accepts, and all of
\* the grid that it rejects
SimHarmonics ==
  {<<1, 0>>, <<3, 0>>}
  \cup {kf \in (0..MaxHarmonic) \X ((-MaxFp)..MaxFp) : axy_aborts(kf[1], kf[2])}

\* the steps dt = 1/(frequency_scale*integration_factor): frequency_scale is at
\* least w_DD = 2*pi/t_DD and integration_factor at least 1, so dt is at most
\* t_DD/(2*pi); even numbers of ticks, so that step midpoints are ticks
StepSizes == {dt \in 1..t_DD : dt % 2 = 0 /\ 628 * dt <= 100 * t_DD}

NoOut == [U |-> <<>>, count0 |-> 0, pulse_count |-> 0, periods |-> 0,
          steps |-> <<>>, normalized |-> FALSE]

\* the calls tried: the static overload with durations of up to MaxPeriods
\* periods and a remainder, the control_fields overload, which takes no whole
\* periods out, with durations of up to one period and a remainder
SimInit ==
  /\ sim_pc = "start"
  /\ \E kf \in SimHarmonics : sim_k = kf[1] /\ sim_fp = kf[2]
  /\ \/ /\ axy_aborts(sim_k, sim_fp)
        /\ sim_x = <<0, 0>>
        /\ sim_time = 0
        /\ sim_adv = 0
        /\ \/ sim_path = "static" /\ sim_dt = 0
           \/ sim_path = "dynamic" /\ sim_dt \in StepSizes
     \/ /\ ~axy_aborts(sim_k, sim_fp)
        /\ sim_x \in FirstTwo(sim_k)
        /\ sim_adv \in (-Slack)..(t_DD + Slack)
        /\ \/ /\ sim_path = "static"
              /\ sim_dt = 0
              /\ sim_time \in 0..(MaxPeriods * t_DD + Slack)
           \/ /\ sim_path = "dynamic"
              /\ sim_dt \in StepSizes
              /\ sim_time \in 0..(t_DD + 2 * Slack)
  /\ sim_out = NoOut

\* the static-field overload of simulate_propagator
SimulateStatic ==
  /\ sim_pc = "start"
  /\ sim_path = "static"
  /\ IF axy_aborts(sim_k, sim_fp)
       THEN sim_pc' = "aborted" /\ sim_out' = NoOut
       ELSE sim_pc' = "done" /\ sim_out' = simulate_static(sim_x, sim_time, sim_adv)
  /\ UNCHANGED <<sim_path, sim_k, sim_fp, sim_x, sim_time, sim_adv, sim_dt>>
  /\ UNCHANGED notSim

\* the control_fields overload of simulate_propagator
SimulateDynamic ==
  /\ sim_pc = "start"
  /\ sim_path = "dynamic"
  /\ IF axy_aborts(sim_k, sim_fp)
       THEN sim_pc' = "aborted" /\ sim_out' = NoOut
       ELSE sim_pc' = "done"
            /\ sim_out' = simulate_dynamic(sim_x, sim_time, sim_adv, sim_dt)
  /\ UNCHANGED <<sim_path, sim_k, sim_fp, sim_x, sim_time, sim_adv, sim_dt>>
  /\ UNCHANGED notSim

\* ------------------------------------------------------------------------
\* Operator algebra: the calls act(A, qs_act, qbits_new), then
\* ptrace(result, complement of qs_act), and ptrace(A, qs_trace)
\* ------------------------------------------------------------------------

NoMat == Mat(0, ZeroF)

\* a matrix of dimension d whose entries are pairwise different and non-zero
DistinctF(d) == LET F(r, c) == r * d + c + 1 IN Mat(d, F)

\* the matrix unit |r><c| of dimension d
UnitF(d, r0, c0) == LET F(r, c) == IF r = r0 /\ c = c0 THEN 1 ELSE 0 IN Mat(d, F)

\* two single-qbit operators with different non-zero traces that do not
\* commute
M_p == [dim |-> 2, e |-> (<<0, 0>> :> 1) @@ (<<0, 1>> :> 2) @@ (<<1, 0>> :> 3) @@ (<<1, 1>> :> 4)]
M_q == [dim |-> 2, e |-> (<<0, 0>> :> 2) @@ (<<0, 1>> :> 0) @@ (<<1, 0>> :> 1) @@ (<<1, 1>> :> 1)]
FactorSet == {M_p, M_q}

\* the operators on k qbits that the calls are tried on: Kronecker products of
\* single-qbit operators, a matrix with pairwise different entries and, for
\* one qbit, the matrix units
AlgInputs(k) ==
  {[m |-> tp_list(f), isProd |-> TRUE, fac |-> f] : f \in [1..k -> FactorSet]}
  \cup {[m |-> DistinctF(Pow2(k)), isProd |-> FALSE, fac |-> <<>>]}
  \cup (IF k = 1
        THEN {[m |-> UnitF(2, r, c), isProd |-> FALSE, fac |-> <<>>] : r, c \in 0..1}
        ELSE {})

\* operators whose dimension is not 2^k
AlgBadInputs(k) ==
  {[m |-> DistinctF(d), isProd |-> FALSE, fac |-> <<>>] :
     d \in (1..Pow2(MaxQubits)) \ {Pow2(k)}}

\* lists of positions in 0..k-1 handed to ptrace: every list of distinct
\* positions, and the lists that name one position twice
TraceLists(k) ==
  UNION {DistinctSeqs(0..(k - 1), len) : len \in 0..k}
  \cup {<<p, p>> : p \in 0..(k - 1)}

AlgInit ==
  /\ \/ /\ alg_pc = "start_act"
        /\ \E n \in 0..MaxQubits : \E k \in 0..n :
             \E qs \in DistinctSeqs(0..(n - 1), k) :
               \E in \in AlgInputs(k) \cup AlgBadInputs(k) :
                 /\ alg_n = n
                 /\ alg_qs = qs
                 /\ alg_A = in.m
                 /\ alg_isProd = in.isProd
                 /\ alg_fac = in.fac
     \/ /\ alg_pc = "start_ptrace"
        /\ \E k \in 0..MaxQubits : \E in \in AlgInputs(k) :
             /\ alg_n = k
             /\ alg_qs = <<>>
             /\ alg_A = in.m
             /\ alg_isProd = in.isProd
             /\ alg_fac = in.fac
  /\ alg_B = NoMat
  /\ alg_tr = <<>>
  /\ alg_R = NoMat

\* B = act(A, qs_act, qbits_new)
ActCall ==
  /\ alg_pc = "start_act"
  /\ IF act_aborts(alg_A, alg_qs, alg_n)
       THEN /\ alg_pc' = "act_aborted"
            /\ alg_B' = NoMat
       ELSE /\ alg_pc' = "acted"
            /\ alg_B' = act(alg_A, alg_qs, alg_n)
  /\ UNCHANGED <<alg_A, alg_isProd, alg_fac, alg_qs, alg_n, alg_tr, alg_R>>
  /\ UNCHANGED notAlg

\* R = ptrace(B, tr) with tr the complement of qs_act, listed in any order
PtraceComplement ==
  /\ alg_pc = "acted"
  /\ alg_B.dim = Pow2(alg_n)
  /\ \E tr \in DistinctSeqs((0..(alg_n - 1)) \ Range(alg_qs), alg_n - Len(alg_qs)) :
       /\ alg_tr' = tr
       /\ alg_R' = ptrace(alg_B, tr)
  /\ alg_pc' = "traced"
  /\ UNCHANGED <<alg_A, alg_isProd, alg_fac, alg_qs, alg_n, alg_B>>
  /\ UNCHANGED notAlg

\* R = ptrace(A, tr) for a list tr of positions of the alg_n qbits of A
PtraceCall ==
  /\ alg_pc = "start_ptrace"
  /\ \E tr \in TraceLists(alg_n) :
       /\ alg_tr' = tr
       /\ IF ptrace_aborts(alg_A, tr)
            THEN /\ alg_pc' = "ptrace_aborted"
                 /\ alg_R' = NoMat
            ELSE /\ alg_pc' = "ptraced"
                 /\ alg_R' = ptrace(alg_A, tr)
  /\ UNCHANGED <<alg_A, alg_isProd, alg_fac, alg_qs, alg_n, alg_B>>
  /\ UNCHANGED notAlg

\* ------------------------------------------------------------------------
\* Properties of the operator algebra
\* ------------------------------------------------------------------------

\* bit of the enumerated state r (of n qbits) at qbit position p, qbit 0 being
\* the most significant bit
BitAt(r, p, n) == (r \div Pow2(n - 1 - p)) % 2

\* the k-bit number whose q-th bit (q = 0 first) is the bit of r at position
\* idx[q + 1]
RECURSIVE Gather(_, _, _, _)
Gather(r, idx, n, q) ==
  IF q >= Len(idx) THEN 0
  ELSE BitAt(r, idx[q + 1], n) * Pow2(Len(idx) - 1 - q) + Gather(r, idx, n, q + 1)

\* the identity-padded embedding of A at the positions idx of n qbits
Embedding(A, idx, n) ==
  LET rest == (0..(n - 1)) \ Range(idx)
      F(r, c) == IF \A p \in rest : BitAt(r, p, n) = BitAt(c, p, n)
                 THEN At(A, Gather(r, idx, n, 0), Gather(c, idx, n, 0))
                 ELSE 0
  IN Mat(Pow2(n), F)

\* <<I2, ..., I2>> with count entries
IdList(count) == [i \in 1..count |-> Identity(2)]

\* idx with every position replaced by its rank among the positions of idx
Ranks(idx) == [q \in DOMAIN idx |-> Cardinality({p \in Range(idx) : p < idx[q]})]

\* C1 as stated: ptrace(act(A, idx, n), complement of idx) is A, entry for entry.
C1_RoundTripExact ==
  (alg_pc = "traced" /\ alg_A.dim = Pow2(Len(alg_qs))) => alg_R = alg_A

\* C1, amended: ptrace(act(A, idx, n), complement of idx) is 2^(n-k) times A
\* with its qbits put in ascending order of idx (A itself when idx ascends),
\* whatever the order in which the complement is listed.
C1_RoundTripScaled ==
  (alg_pc = "traced" /\ alg_A.dim = Pow2(Len(alg_qs))) =>
    alg_R = Scale(Pow2(alg_n - Len(alg_qs)),
                  Embedding(alg_A, Ranks(alg_qs), Len(alg_qs)))

\* a round trip that pads with two identities a two-qbit operator whose
\* positions are listed in descending order
C1_Witness ==
  /\ alg_pc = "traced"
  /\ alg_n = 3
  /\ alg_qs = <<2, 0>>
  /\ ~alg_isProd
  /\ alg_A.dim = 4
  /\ alg_R # alg_A

\* C5: act aborts whenever the dimension of A is not 2^len(target_indices),
\* the identity-order list of all qbits included.
C5_ActAbortsOnBadDimension ==
  (alg_pc \in {"acted", "act_aborted"} /\ alg_A.dim # Pow2(Len(alg_qs)))
    => alg_pc = "act_aborted"

\* C6: act(A, idx, n) is the identity-padded embedding of A with qbit 0 the
\* most significant bit, and act(A, [q], n) is the Kronecker product of q
\* identities, A and n-q-1 identities.
C6_ActIsEmbedding ==
  (alg_pc = "acted" /\ alg_A.dim = Pow2(Len(alg_qs))) =>
    /\ alg_B = Embedding(alg_A, alg_qs, alg_n)
    /\ Len(alg_qs) = 1 =>
         alg_B = tp_list(IdList(alg_qs[1]) \o <<alg_A>> \o IdList(alg_n - alg_qs[1] - 1))

\* a one-qbit operator placed on the middle one of three qbits
C6_Witness ==
  /\ alg_pc = "acted"
  /\ alg_n = 3
  /\ alg_qs = <<1>>
  /\ alg_A = M_p
  /\ alg_B.dim = 8
  /\ At(alg_B, 2, 0) = 3

\* product of the traces of the factors at the positions in T
RECURSIVE TraceProduct(_, _, _)
TraceProduct(fac, T, q) ==
  IF q >= Len(fac) THEN 1
  ELSE (IF q \in T THEN trace(fac[q + 1]) ELSE 1) * TraceProduct(fac, T, q + 1)

\* the factors at the positions not in T, in ascending position
RECURSIVE Remaining(_, _, _)
Remaining(fac, T, q) ==
  IF q >= Len(fac) THEN <<>>
  ELSE (IF q \in T THEN <<>> ELSE <<fac[q + 1]>>) \o Remaining(fac, T, q + 1)

\* C7: the partial trace of a Kronecker product of single-qbit operators is
\* the product of the traces of the traced factors times the Kronecker
\* product of the remaining factors in ascending position, whatever the order
\* of traced_indices.
C7_PtraceOfProduct ==
  (alg_pc = "ptraced" /\ alg_isProd) =>
    alg_R = Scale(TraceProduct(alg_fac, Range(alg_tr), 0),
                  tp_list(Remaining(alg_fac, Range(alg_tr), 0)))

\* the outer two of three different-looking factors traced out, listed in
\* descending order
C7_Witness ==
  /\ alg_pc = "ptraced"
  /\ alg_isProd
  /\ alg_fac = <<M_p, M_q, M_p>>
  /\ alg_tr = <<2, 0>>
  /\ alg_R = Scale(25, M_q)

\* ------------------------------------------------------------------------
\* Properties of the spin clustering
\* ------------------------------------------------------------------------

\* i and j are in the same cluster of clusters
SameCluster(clusters, i, j) ==
  \E a \in 1..Len(clusters) : in_vector(i, clusters[a]) /\ in_vector(j, clusters[a])

\* the spins joined to the set S by a path of couplings >= th
RECURSIVE Component(_, _, _, _)
Component(c, N, th, S) ==
  LET T == S \cup {k \in 0..(N - 1) : \E i \in S : i # k /\ coupling_strength(c, i, k) >= th}
  IN IF T = S THEN S ELSE Component(c, N, th, T)

\* C2: two indices are in the same cluster of the output of cluster_nuclei
\* if and only if a path of couplings >= threshold joins them.
C2_ConnectedComponents ==
  cl_pc = "done" =>
    \A i, j \in 0..(cl_N - 1) :
      SameCluster(cl_out, i, j) <=> j \in Component(cl_c, cl_N, cl_th, {i})

\* the places <<a, b>> of the output at which index i stands
Places(clusters, i) ==
  {ab \in (1..Len(clusters)) \X (1..(NumSpins + 1)) :
     ab[2] <= Len(clusters[ab[1]]) /\ clusters[ab[1]][ab[2]] = i}

\* C4: the output of cluster_nuclei is a partition of 0..N-1: every index
\* stands at exactly one place of exactly one cluster, nothing else stands
\* anywhere, and no cluster is empty.
C4_Partition ==
  cl_pc = "done" =>
    /\ \A i \in 0..(cl_N - 1) : Cardinality(Places(cl_out, i)) = 1
    /\ \A a \in 1..Len(cl_out) :
         /\ Len(cl_out[a]) >= 1
         /\ Len(cl_out[a]) <= cl_N
         /\ \A b \in 1..Len(cl_out[a]) : cl_out[a][b] \in 0..(cl_N - 1)

\* a run on all NumSpins spins in which a spin stands in a cluster after two
\* members that are both coupled to it: the second finds it clustered already
C4_Witness ==
  /\ cl_pc = "done"
  /\ cl_N = NumSpins
  /\ \E a \in 1..Len(cl_out) :
       \E b1, b2, b3 \in 1..Len(cl_out[a]) :
         /\ b1 < b2 /\ b2 < b3
         /\ cl_out[a][b2] < cl_out[a][b3]
         /\ coupling_strength(cl_c, cl_out[a][b1], cl_out[a][b3]) >= cl_th
         /\ coupling_strength(cl_c, cl_out[a][b2], cl_out[a][b3]) >= cl_th
         /\ cl_th > 0

\* C13: for three spins with c(0,1) >= threshold, threshold > c(0,2) and
\* threshold > c(1,2), cluster_nuclei returns exactly [0,1] followed by [2].
C13_ThreeSpinExample ==
  (/\ cl_pc = "done"
   /\ cl_N = 3
   /\ coupling_strength(cl_c, 0, 1) >= cl_th
   /\ cl_th > coupling_strength(cl_c, 0, 2)
   /\ cl_th > coupling_strength(cl_c, 1, 2))
    => cl_out = << <<0, 1>>, <<2>> >>

\* the example at its edge: c(0,1) equal to the threshold, the two other
\* couplings different and both below it
C13_Witness ==
  /\ cl_pc = "done"
  /\ cl_N = 3
  /\ coupling_strength(cl_c, 0, 1) = cl_th
  /\ cl_th > coupling_strength(cl_c, 0, 2)
  /\ coupling_strength(cl_c, 0, 2) > coupling_strength(cl_c, 1, 2)
  /\ cl_out = << <<0, 1>>, <<2>> >>

\* C23: the largest cluster does not grow with the threshold: at every
\* threshold above the one of the call, cluster_nuclei gives a largest
\* cluster no larger than the one of the call.
C23_LargestClusterMonotone ==
  cl_pc = "done" =>
    \A t2 \in cl_th..(MaxCoupling + 1) :
      largest_cluster_size(cluster_nuclei(cl_c, cl_N, t2))
        <= largest_cluster_size(cl_out)

\* ------------------------------------------------------------------------
\* Properties of the pulse times
\* ------------------------------------------------------------------------

\* C8: for admissible (f, k) the 12 times of axy_pulse_times start at 0, end
\* at 1 and satisfy times[11-i] = 1 - times[i] for i in 1..5 (times[i] is
\* pu_in[i + 1]).
C8_AxySymmetry ==
  (pu_pc = "have_pulses" /\ pu_k # 0) =>
    /\ Len(pu_in) = 12
    /\ pu_in[1] = 0
    /\ pu_in[12] = Den
    /\ \A i \in 1..5 : pu_in[12 - i] = Den - pu_in[i + 1]

\* axy_pulse_times has returned for harmonic 1 at the largest admissible
\* f*pi, with x1 and x2 apart
C8_Witness ==
  /\ pu_pc = "have_pulses"
  /\ pu_k = 1
  /\ pu_fp = FpLimit1
  /\ pu_in[2] + 1 < pu_in[3]

\* C9: advanced_pulse_times with advance 0 returns its input, with advance 1
\* it returns what advance 0 returns, and advances a and a + m return the
\* same schedule for every integer m.
C9_AdvanceWholePeriods ==
  pu_pc = "advanced" =>
    /\ pu_adv = 0 => pu_out = pu_in
    /\ pu_adv + pu_shift * Den = Den => pu_out2 = pu_in
    /\ pu_out2 = pu_out

\* a schedule of axy_pulse_times advanced by a proper fraction and by the
\* same fraction less MaxShift periods, which moves the markers
C9_Witness ==
  /\ pu_pc = "advanced"
  /\ pu_k # 0
  /\ pu_adv > 0 /\ pu_adv < Den
  /\ pu_shift = -MaxShift
  /\ pu_out2 = pu_out
  /\ pu_out # pu_in

\* a schedule: first marker 0, last marker 1, the markers between them
\* non-decreasing in [0, top]
IsSchedule(times, top) ==
  /\ Len(times) >= 2
  /\ times[1] = 0
  /\ times[Len(times)] = Den
  /\ \A i \in 2..(Len(times) - 1) : times[i] >= 0 /\ times[i] <= top
  /\ \A i \in 2..(Len(times) - 2) : times[i] <= times[i + 1]

\* C10: from a schedule with interior markers in [0,1) advanced_pulse_times
\* returns a schedule with as many markers, first marker 0, last marker 1,
\* interior markers non-decreasing in [0,1].
C10_AdvancedIsSchedule ==
  (pu_pc = "advanced" /\ IsSchedule(pu_in, Den - 1)) =>
    /\ Len(pu_out) = Len(pu_in)
    /\ IsSchedule(pu_out, Den)
    /\ Len(pu_out2) = Len(pu_in)
    /\ IsSchedule(pu_out2, Den)

\* an advance that falls strictly between two markers, so that the markers
\* before it come back from the next period
C10_Witness ==
  /\ pu_pc = "advanced"
  /\ IsSchedule(pu_in, Den - 1)
  /\ Len(pu_in) >= 4
  /\ LET na == normed(pu_adv, Den)
     IN /\ pu_in[2] < na
        /\ na < pu_in[Len(pu_in) - 1]
  /\ pu_out # pu_in

\* the interior markers of a schedule
Interior(times) == SubSeq(times, 2, Len(times) - 1)

\* how often the value v stands in the sequence s
Occurrences(s, v) == Cardinality({i \in 1..Len(s) : s[i] = v})

\* s lists in non-decreasing order the markers of the schedule `times` moved
\* back by a and taken mod 1
IsRotation(s, times, a) ==
  /\ Len(s) = Len(Interior(times))
  /\ \A i \in 1..(Len(s) - 1) : s[i] <= s[i + 1]
  /\ LET r == [i \in 1..Len(Interior(times)) |-> (Interior(times)[i] - a) % Den]
     IN \A v \in {s[i] : i \in 1..Len(s)} \cup {r[i] : i \in 1..Len(r)} :
          Occurrences(s, v) = Occurrences(r, v)

\* C24: advanced_pulse_times rotates the schedule: from a sorted schedule with
\* interior markers t_i in [0,1) and an advance with fractional part a, the
\* interior markers of the output are the (t_i - a) mod 1 in non-decreasing
\* order; a marker t_i < a comes back as 1 + t_i - a.
C24_AdvanceRotates ==
  (pu_pc = "advanced" /\ IsSchedule(pu_in, Den - 1)) =>
    LET a == pu_adv % Den
    IN /\ Len(pu_out) = Len(pu_in)
       /\ pu_out[1] = 0
       /\ pu_out[Len(pu_out)] = Den
       /\ IsRotation(Interior(pu_out), pu_in, a)
       /\ IsRotation(Interior(pu_out2), pu_in, a)
       /\ \A i \in 2..(Len(pu_in) - 1) :
            pu_in[i] < a => Occurrences(Interior(pu_out), Den + pu_in[i] - a) >= 1

\* a schedule of axy_pulse_times advanced past some of its markers by an
\* advance below 0, so that markers wrap into the end of the period
C24_Witness ==
  /\ pu_pc = "advanced"
  /\ pu_k # 0
  /\ pu_adv < 0
  /\ pu_in[4] < pu_adv % Den
  /\ pu_adv % Den < pu_in[9]
  /\ pu_out[Len(pu_out) - 1] = Den + pu_in[4] - (pu_adv % Den)

\* ------------------------------------------------------------------------
\* Properties of simulate_propagator
\* ------------------------------------------------------------------------

\* C3: with simulation_time = 0 both overloads return the identity, and
\* the control_fields overload makes no pass of its integration loop.
C3_ZeroDurationIdentity ==
  (sim_pc = "done" /\ sim_time = 0) =>
    /\ sim_out.U = <<>>
    /\ sim_out.normalized
    /\ sim_path = "dynamic" => sim_out.steps = <<>>

\* a zero-duration call of the control_fields overload at an advance with an
\* odd number of pulses before it
C3_Witness ==
  /\ sim_pc = "done"
  /\ sim_time = 0
  /\ sim_path = "dynamic"
  /\ sim_out.count0 % 2 = 1
  /\ sim_out.U = <<>>

\* the interior markers p whose time pulses.at(p)*t_DD lies inside the step
\* that starts at t
MarkersIn(pulses, t, dt) ==
  {p \in 1..(Len(pulses) - 2) : pulses[p + 1] > t /\ pulses[p + 1] < t + dt}

\* C19: in the control_fields overload no pulse marker is skipped: a step
\* with two or more markers inside it is split at each of them, with one
\* flip per marker (a step with n markers inside is integrated in n + 1
\* pieces with n flips between them).
C19_StepSplitAtEveryMarker ==
  (sim_pc = "done" /\ sim_path = "dynamic") =>
    \A i \in 1..Len(sim_out.steps) :
      LET step == sim_out.steps[i]
          n    == Cardinality(MarkersIn(pulse_ticks(sim_x), step.t, sim_dt))
      IN /\ Len(step.lens) = n + 1
         /\ (IF step.pulse = 0 THEN 0 ELSE 1) = n

\* the steps of a finished run that flip the NV spin at time T
FlipsAt(out, T) ==
  {i \in 1..Len(out.steps) :
     out.steps[i].pulse # 0 /\ out.steps[i].t + out.steps[i].lens[1] = T}

\* C20: the control_fields overload follows the periodic pulse sequence over
\* the whole duration: for every period number m and interior marker p, the
\* pulse at (m + pulses[p]) * t_DD makes exactly one flip when that time
\* lies inside the window from advance to advance + simulation_time.
C20_PeriodicPulses ==
  (sim_pc = "done" /\ sim_path = "dynamic") =>
    \A m \in 0..(MaxPeriods + 2) : \A p \in 1..10 :
      LET T == m * t_DD + pulse_ticks(sim_x)[p + 1]
      IN (sim_adv < T /\ T < sim_adv + sim_time)
           => Cardinality(FlipsAt(sim_out, T)) = 1

\* the number of flips X left in a propagator; X*X = identity removes flips
\* two at a time, so it is odd exactly when the number of flips multiplied
\* into the propagator is odd
XCount(U) == Cardinality({i \in 1..Len(U) : U[i].op = "X"})

\* the interior markers strictly before the normalized starting phase
MarkersBefore(pulses, normed_advance) ==
  {p \in 1..(Len(pulses) - 2) : pulses[p + 1] < normed_advance}

\* C21: in both overloads the initial flip is applied iff the number of
\* interior markers strictly before the normalized starting phase is odd, the
\* final flip iff that number plus the pulses applied since is odd, so the
\* number of flips in the returned propagator is even.
C21_EvenNumberOfFlips ==
  sim_pc = "done" =>
    /\ sim_out.count0 =
         Cardinality(MarkersBefore(pulse_ticks(sim_x), normed(sim_adv, t_DD)))
    /\ sim_out.pulse_count >= sim_out.count0
    /\ sim_path = "dynamic" =>
         sim_out.pulse_count - sim_out.count0 =
           Cardinality({i \in 1..Len(sim_out.steps) : sim_out.steps[i].pulse # 0})
    /\ XCount(sim_out.U) % 2 = 0

\* a run that starts flipped, applies pulses and ends flipped: both the
\* initial and the final flip are made
C21_Witness ==
  /\ sim_pc = "done"
  /\ sim_time > 0
  /\ sim_out.count0 % 2 = 1
  /\ sim_out.pulse_count > sim_out.count0
  /\ sim_out.pulse_count % 2 = 1
  /\ sim_out.U # <<>>

\* the time a propagator evolves over: the sum of the lengths of its factors
RECURSIVE EvolvedTime(_)
EvolvedTime(U) ==
  IF U = <<>> THEN 0 ELSE U[Len(U)].len + EvolvedTime(SubSeq(U, 1, Len(U) - 1))

\* the factors of k segments of a schedule, a flip after each of them, in
\* chronological order
Segments(schedule, k) ==
  [j \in 1..(2 * k) |->
     IF j % 2 = 1
     THEN TokE(schedule[(j + 1) \div 2 + 1] - schedule[(j + 1) \div 2], -1)
     ELSE TokX]

\* n copies of a list of factors, one after the other
Repeated(W, n) == [j \in 1..(n * Len(W)) |-> W[((j - 1) % Len(W)) + 1]]

\* C22: the static-field overload composes the whole-period propagator
\* floor(duration/t_DD) times, then the segments of the remainder in
\* chronological order with a flip after each segment that ends at a marker
\* strictly before the remaining time, the last segment cut at the remaining
\* time; the evolved time is the duration.
C22_StaticComposition ==
  (sim_pc = "done" /\ sim_path = "static") =>
    LET adv    == advanced_pulse_times(pulse_ticks(sim_x), normed(sim_adv, t_DD), t_DD)
        n      == sim_time \div t_DD
        rem    == sim_time - n * t_DD
        k      == Cardinality({i \in 2..Len(adv) : adv[i] < rem})
        flip0  == IF sim_out.count0 % 2 = 1 THEN <<TokX>> ELSE <<>>
        period == Segments(adv, Len(adv) - 1) \o <<TokX>>
        tail   == Segments(adv, k) \o <<TokE(rem - adv[k + 1], -1)>>
        flipf  == IF (sim_out.count0 + k) % 2 = 1 THEN <<TokX>> ELSE <<>>
    IN /\ sim_out.periods = n
       /\ sim_out.pulse_count = sim_out.count0 + k
       /\ sim_out.U = MulAll(flip0 \o Repeated(period, n) \o tail \o flipf, <<>>)
       /\ EvolvedTime(MulAll(tail, <<>>)) = rem
       /\ rem - adv[k + 1] >= 0
       /\ EvolvedTime(sim_out.U) = sim_time

\* a run over two whole periods and a remainder with pulses in it
C22_Witness ==
  /\ sim_pc = "done"
  /\ sim_path = "static"
  /\ sim_out.periods = 2
  /\ sim_time > 2 * t_DD
  /\ sim_out.pulse_count > sim_out.count0
  /\ normed(sim_adv, t_DD) # 0

\* C27: the integration loop of the control_fields overload can be cancelled
\* from outside: once the caller has asked for it, the loop stops within a
\* bounded number of passes (at most CancelGrace more passes begin).
C27_LoopCanBeCancelled ==
  rn_cancel => rn_since <= CancelGrace

\* the sum of the lengths of the pieces of the steps from step i on
RECURSIVE StepTime(_, _)
StepTime(steps, i) ==
  IF i > Len(steps) THEN 0
  ELSE (IF Len(steps[i].lens) = 2 THEN steps[i].lens[1] + steps[i].lens[2]
        ELSE steps[i].lens[1]) + StepTime(steps, i + 1)

\* C28: in the control_fields overload every piece of a step (dt, dtf, dt1,
\* dt2) has a length that is not negative, and the lengths of all pieces of
\* a call sum to simulation_time.
C28_StepLengths ==
  (sim_pc = "done" /\ sim_path = "dynamic") =>
    /\ \A i \in 1..Len(sim_out.steps) :
         \A l \in 1..Len(sim_out.steps[i].lens) : sim_out.steps[i].lens[l] >= 0
    /\ StepTime(sim_out.steps, 1) = sim_time

\* the times, counted in evolved time from the start of the propagator, at
\* which it flips the NV spin
FlipTimes(U) ==
  {EvolvedTime(SubSeq(U, 1, i)) : i \in {n \in 1..Len(U) : U[n].op = "X"}}

\* C29: with no control fields the control_fields overload describes the
\* same evolution as the static-field overload for the same k, f, duration
\* and advance: the same initial flip, as many pulse flips at the same times,
\* the same final flip and the same evolved time.
C29_OverloadsAgree ==
  (sim_pc = "done" /\ sim_path = "dynamic") =>
    LET static == simulate_static(sim_x, sim_time, sim_adv)
    IN /\ sim_out.count0 = static.count0
       /\ sim_out.pulse_count - sim_out.count0
            = 10 * static.periods + static.pulse_count - static.count0
       /\ sim_out.pulse_count % 2 = (10 * static.periods + static.pulse_count) % 2
       /\ EvolvedTime(sim_out.U) = EvolvedTime(static.U)
       /\ FlipTimes(sim_out.U) = FlipTimes(static.U)

\* ------------------------------------------------------------------------
\* Properties of find_target_coupling
\* ------------------------------------------------------------------------

\* C11: with cluster_size_target = 1 the threshold returned is strictly
\* greater than the coupling of every pair of nuclei, and strictly greater
\* than 0.
C11_TargetOneAboveMax ==
  (ft_pc = "returned" /\ ft_target = 1) =>
    /\ ft_ret > 0
    /\ \A p \in Pairs(ft_N) : ft_ret > ft_c[p]

\* a return for target size 1 on NumSpins nuclei whose couplings differ
C11_Witness ==
  /\ ft_pc = "returned"
  /\ ft_target = 1
  /\ ft_N = NumSpins
  /\ \E p, q \in Pairs(ft_N) : ft_c[p] < ft_c[q]
  /\ ft_ret = MaxCoupling * Fine + ft_cutoff

\* C12: whenever find_target_coupling returns for a target size >= 2, the
\* largest cluster at the threshold returned has at least target size
\* nuclei, and dcc is below dcc_cutoff.
C12_ReturnMeetsTarget ==
  (ft_pc = "returned" /\ ft_target >= 2) =>
    /\ largest_cluster_size(cluster_nuclei(ft_c, ft_N, ft_ret)) >= ft_target
    /\ ft_dcc < ft_cutoff

\* a return after the search has crossed the wanted coupling and moved the
\* threshold away from initial_cluster_coupling
C12_Witness ==
  /\ ft_pc = "returned"
  /\ ft_target >= 2
  /\ ft_crossed
  /\ ft_iter >= 3
  /\ ft_ret # 0
  /\ largest_cluster_size(cluster_nuclei(ft_c, ft_N, ft_ret)) = ft_target

\* a call with a positive initial_cluster_coupling, a positive dcc_cutoff and
\* a target size from 2 to the number of nuclei
SearchCanEnd ==
  ft_cc > 0 /\ ft_cutoff > 0 /\ 2 <= ft_target /\ ft_target <= ft_N

\* a call with a positive dcc_cutoff and a target size above the number of
\* nuclei, or with target size 0 and a first step dcc of at least dcc_cutoff
SearchCannotEnd ==
  /\ ft_cutoff > 0
  /\ \/ ft_target > ft_N /\ ft_target >= 2
     \/ ft_target = 0 /\ ft_pc # "start" /\ ft_dcc >= ft_cutoff

OutOfRange(k, fp) ==
  \/ k \notin {1, 3}
  \/ k = 1 /\ Abs(fp) > FpLimit1
  \/ k = 3 /\ Abs(fp) >= FpLimit3

\* C16: a call of axy_pulse_times with k outside {1,3}, with
\* |f*pi| >= 8cos(pi/9)-4 for k = 1 or with |f*pi| >= 4 for k = 3 aborts and
\* returns no schedule, and so does a call of either overload of
\* simulate_propagator with such (f, k), which returns no propagator.
C16_OutOfRangeAborts ==
  [][/\ (pu_pc = "start" /\ OutOfRange(pu_k, pu_fp))
          => (pu_pc' = "axy_aborted" /\ pu_in' = <<>>)
     /\ (sim_pc = "start" /\ OutOfRange(sim_k, sim_fp))
          => (sim_pc' = "aborted" /\ sim_out' = NoOut)]_vars

\* axy_pulse_times has aborted for harmonic 1 at the first f*pi of the grid
\* beyond 8cos(pi/9)-4
C16_Witness ==
  /\ pu_pc = "axy_aborted"
  /\ pu_k = 1
  /\ pu_fp = -(FpLimit1 + 1)
  /\ pu_in = <<>>

\* ------------------------------------------------------------------------
\* Properties of the index lookups
\* ------------------------------------------------------------------------

\* clusters is a partition of the indices 0..N-1
IsPartition(clusters, N) ==
  /\ \A i \in 0..(N - 1) :
       Cardinality({ab \in (1..Len(clusters)) \X (1..N) :
                      ab[2] <= Len(clusters[ab[1]]) /\ clusters[ab[1]][ab[2]] = i}) = 1
  /\ \A a \in 1..Len(clusters) :
       /\ Len(clusters[a]) >= 1
       /\ \A b \in 1..Len(clusters[a]) : clusters[a][b] \in 0..(N - 1)

\* C17: get_cluster_containing_index aborts for an index >= the number of
\* nuclei, get_index_in_cluster aborts for an index that is not in the
\* cluster, and for an index below the number of nuclei of a partitioned
\* system get_cluster_containing_index returns the one cluster that holds it.
C17_LookupContract ==
  /\ (lk_pc \in {"aborted", "returned", "no_return"} /\ lk_index >= lk_N)
       => lk_pc = "aborted"
  /\ (lk_pc \in {"in_aborted", "in_returned"} /\ ~in_vector(lk_index, lk_clusters[lk_which]))
       => lk_pc = "in_aborted"
  /\ (/\ lk_pc \in {"aborted", "returned", "no_return"}
      /\ lk_index < lk_N
      /\ IsPartition(lk_clusters, lk_N))
       => /\ lk_pc = "returned"
          /\ lk_ret \in 0..(Len(lk_clusters) - 1)
          /\ in_vector(lk_index, lk_clusters[lk_ret + 1])
          /\ \A a \in 1..Len(lk_clusters) :
               in_vector(lk_index, lk_clusters[a]) => a = lk_ret + 1

\* the cluster found is not the first, it has several members, the index is
\* not its first member, and the clusters are not in ascending order
C17_Witness ==
  /\ lk_pc = "returned"
  /\ lk_N = NumSpins
  /\ IsPartition(lk_clusters, lk_N)
  /\ lk_ret >= 1
  /\ Len(lk_clusters[lk_ret + 1]) >= 2
  /\ lk_clusters[lk_ret + 1][1] # lk_index
  /\ lk_clusters[1][1] > lk_index

\* ------------------------------------------------------------------------
\* Properties of U_int
\* ------------------------------------------------------------------------

\* the cluster of nv.clusters that holds index
ClusterOf(clusters, index) ==
  clusters[CHOOSE a \in 1..Len(clusters) : in_vector(index, clusters[a])]

\* C18: a non-exact U_int for a target nucleus whose hyperfine field has no
\* component perpendicular to the NV axis does not abort: it prints the
\* diagnostic and returns the identity of dimension 2^(cluster size + 1),
\* and simulate_propagator is not called.
C18_NoPerpGivesIdentity ==
  (/\ ui_pc # "start"
   /\ ui_index < ui_N
   /\ ~ui_exact
   /\ hyperfine_perp_zero(ui_pos))
    => /\ ui_pc = "returned"
       /\ ui_out.kind = "identity"
       /\ ui_out.dim = Pow2(Len(ClusterOf(ui_clusters, ui_index)) + 1)
       /\ ui_out.diagnostic = "no_perp"
       /\ ui_out.simulate_calls = 0

\* ------------------------------------------------------------------------
\* Properties of group_clusters
\* ------------------------------------------------------------------------

\* the place of the group that holds the index
GroupOf(groups, index) ==
  CHOOSE a \in 1..Len(groups) : \E b \in 1..Len(groups[a]) : groups[a][b] = index

\* C25: the groups of group_clusters are a partition of the indices of
\* nv.clusters, every cluster lies in one group, and no two groups hold the
\* two nuclei of a larmor pair.
C25_GroupsClosed ==
  gc_pc = "done" =>
    /\ IsPartition(gc_out, gc_N)
    /\ \A a \in 1..Len(gc_clusters) : \A b \in 1..Len(gc_clusters[a]) :
         GroupOf(gc_out, gc_clusters[a][b]) = GroupOf(gc_out, gc_clusters[a][1])
    /\ \A i \in 0..(gc_N - 1) : \A k \in 0..(gc_N - 1) :
         is_larmor_pair(gc_pos, i, k) => GroupOf(gc_out, i) = GroupOf(gc_out, k)

\* three clusters end in one group although the first and the third hold no
\* larmor pair: the third is taken through a member of the second
C25_Witness ==
  /\ gc_pc = "done"
  /\ Len(gc_clusters) = 3
  /\ Len(gc_out) = 1
  /\ \A b \in 1..Len(gc_clusters[1]) : \A d \in 1..Len(gc_clusters[3]) :
       ~is_larmor_pair(gc_pos, gc_clusters[1][b], gc_clusters[3][d])

\* ------------------------------------------------------------------------
\* Properties of the mvec operators
\* ------------------------------------------------------------------------

\* C26: the mvec operators are pure: v + w, v - w, v * s, v / s and v * G
\* leave v and w as they were and only return a new value.
C26_MvecOperatorsPure ==
  [][(mv_pc = "start" /\ mv_pc' = "done") => (mv_v' = mv_v /\ mv_w' = mv_w)]_vars

\* ------------------------------------------------------------------------
\* Properties of gate_fidelity
\* ------------------------------------------------------------------------

\* U.adjoint()*U is the identity
IsUnitary(U) ==
  LET P == cprod(adjoint(U), U)
  IN \A rc \in DOMAIN P.e :
       P.e[rc] = IF rc[1] = rc[2] THEN <<P.den, 0>> ELSE <<0, 0>>

\* C14: for unitary U and G of one dimension D, gate_fidelity(U, U) is 1,
\* gate_fidelity(U, G) is 1/(D+1) when Tr(G^dagger U) = 0, and no fidelity
\* of two unitaries is below 1/(D+1).
C14_FidelityExtremes ==
  (fid_pc = "done" /\ IsUnitary(fid_U) /\ IsUnitary(fid_G)) =>
    /\ fid_U = fid_G => fid_out[1] = fid_out[2]
    /\ ctrace(cprod(adjoint(fid_G), fid_U)) = <<0, 0>>
         => fid_out[1] * (fid_U.dim + 1) = fid_out[2]
    /\ fid_out[1] * (fid_U.dim + 1) >= fid_out[2]

\* two different two-qbit unitaries with Tr(G^dagger U) = 0, one of them
\* with several nonzero entries in a row, and the fidelity 1/5
C14_Witness ==
  /\ fid_pc = "done"
  /\ fid_U.dim = 4
  /\ IsUnitary(fid_U) /\ IsUnitary(fid_G)
  /\ fid_U.den = 25
  /\ fid_G.den = 1
  /\ ctrace(cprod(adjoint(fid_G), fid_U)) = <<0, 0>>
  /\ fid_out[1] * 5 = fid_out[2]

\* ------------------------------------------------------------------------
\* Specifications: one per component; the other components stay idle
\* ------------------------------------------------------------------------

AlgIdle ==
  /\ alg_pc = "idle" /\ alg_A = NoMat /\ alg_isProd = FALSE /\ alg_fac = <<>>
  /\ alg_qs = <<>> /\ alg_n = 0 /\ alg_B = NoMat /\ alg_tr = <<>> /\ alg_R = NoMat

ClusterIdle ==
  cl_pc = "idle" /\ cl_N = 0 /\ cl_c = <<>> /\ cl_th = 0 /\ cl_out = <<>>

PulseIdle ==
  /\ pu_pc = "idle" /\ pu_k = 0 /\ pu_fp = 0 /\ pu_in = <<>> /\ pu_adv = 0
  /\ pu_shift = 0 /\ pu_out = <<>> /\ pu_out2 = <<>>

SimIdle ==
  /\ sim_pc = "idle" /\ sim_path = "none" /\ sim_k = 0 /\ sim_fp = 0
  /\ sim_x = <<0, 0>> /\ sim_time = 0 /\ sim_adv = 0 /\ sim_dt = 0 /\ sim_out = NoOut

FtIdle ==
  /\ ft_pc = "idle" /\ ft_N = 0 /\ ft_c = <<>> /\ ft_target = 0 /\ ft_cutoff = 0
  /\ ft_cc = 0 /\ ft_dcc = 0 /\ ft_small = FALSE /\ ft_crossed = FALSE
  /\ ft_iter = 0 /\ ft_ret = 0

FidIdle ==
  fid_pc = "idle" /\ fid_U = NoMat /\ fid_G = NoMat /\ fid_out = <<0, 1>>

LkIdle ==
  /\ lk_pc = "idle" /\ lk_N = 0 /\ lk_clusters = <<>> /\ lk_index = 0
  /\ lk_which = 0 /\ lk_ret = 0

UiIdle ==
  /\ ui_pc = "idle" /\ ui_N = 0 /\ ui_clusters = <<>> /\ ui_index = 0
  /\ ui_pos = <<0, 0, 0>> /\ ui_pair = FALSE /\ ui_exact = FALSE
  /\ ui_f_ok = FALSE /\ ui_out = NoCall

GcIdle ==
  gc_pc = "idle" /\ gc_N = 0 /\ gc_pos = <<>> /\ gc_clusters = <<>> /\ gc_out = <<>>

MvIdle ==
  mv_pc = "idle" /\ mv_v = <<>> /\ mv_w = <<>> /\ mv_s = 1 /\ mv_G = 0 /\ mv_ret = <<>>

RunIdle ==
  /\ rn_pc = "idle" /\ rn_x = <<0, 0>> /\ rn_time = 0 /\ rn_adv = 0 /\ rn_dt = 0
  /\ rn_t_i = 0 /\ rn_st = <<>> /\ rn_cancel = FALSE /\ rn_since = 0

\* every component but `me` is idle
OthersIdle(me) ==
  /\ IF me = "alg" THEN TRUE ELSE AlgIdle
  /\ IF me = "cluster" THEN TRUE ELSE ClusterIdle
  /\ IF me = "pulse" THEN TRUE ELSE PulseIdle
  /\ IF me = "sim" THEN TRUE ELSE SimIdle
  /\ IF me = "ft" THEN TRUE ELSE FtIdle
  /\ IF me = "fid" THEN TRUE ELSE FidIdle
  /\ IF me = "lk" THEN TRUE ELSE LkIdle
  /\ IF me = "ui" THEN TRUE ELSE UiIdle
  /\ IF me = "gc" THEN TRUE ELSE GcIdle
  /\ IF me = "mv" THEN TRUE ELSE MvIdle
  /\ IF me = "run" THEN TRUE ELSE RunIdle

InitAlg == AlgInit /\ OthersIdle("alg")

AlgNext == ActCall \/ PtraceComplement \/ PtraceCall

SpecAlg == InitAlg /\ [][AlgNext]_vars

InitCluster == ClusterInit /\ OthersIdle("cluster")

ClusterNext == ClusterCall

SpecCluster == InitCluster /\ [][ClusterNext]_vars

InitPulse == PulseInit /\ OthersIdle("pulse")

PulseNext == AxyCall \/ AdvanceCall

SpecPulse == InitPulse /\ [][PulseNext]_vars

InitSim == SimInit /\ OthersIdle("sim")

SimNext == SimulateStatic \/ SimulateDynamic

SpecSim == InitSim /\ [][SimNext]_vars

InitFt == FtInit /\ OthersIdle("ft")

FtNext == FindTargetCall \/ FindTargetPass \/ FindTargetReturn

SpecFt == InitFt /\ [][FtNext]_vars

InitFid == FidInit /\ OthersIdle("fid")

FidNext == GateFidelityCall

SpecFid == InitFid /\ [][FidNext]_vars

InitLk == LookupInit /\ OthersIdle("lk")

LkNext == GetClusterContainingIndex \/ GetIndexInCluster

SpecLk == InitLk /\ [][LkNext]_vars

InitUi == UIntInit /\ OthersIdle("ui")

UiNext == UIntCall

SpecUi == InitUi /\ [][UiNext]_vars

InitGc == GroupInit /\ OthersIdle("gc")

GcNext == GroupClustersCall

SpecGc == InitGc /\ [][GcNext]_vars

InitMv == MvecInit /\ OthersIdle("mv")

MvNext == \/ MvecPlus \/ MvecMinus \/ MvecTimesScalar \/ MvecOverScalar \/ MvecTimesMatrix
  \/ ScalarTimesMvec

SpecMv == InitMv /\ [][MvNext]_vars

InitRun == RunInit /\ OthersIdle("run")

RunNext == LoopPass \/ LoopExit \/ RequestCancel

SpecRun == InitRun /\ [][RunNext]_vars

\* the conditions under which FindTargetCall and FindTargetPass can be taken
CallCanBegin == ft_pc = "start"
PassCanBegin ==
  ft_pc = "loop" /\ loop_goes_on(ft_dcc, ft_cutoff, ft_small) /\ ft_iter < MaxIter

\* find_target_coupling run to its end: the call is one thread of control
\* that takes its next step whenever it has one.  This is weak fairness of
\* each of the three steps; for the call and the pass it is written out with
\* the condition under which the step can be taken
SpecFtLive ==
  /\ InitFt /\ [][FtNext]_vars
  /\ ([]<>(~CallCanBegin) \/ []<><<FindTargetCall>>_vars)
  /\ ([]<>(~PassCanBegin) \/ []<><<FindTargetPass>>_vars)
  /\ WF_vars(FindTargetReturn)

\* axy_pulse_times and its callers: the calls of the pulse-time functions, and
\* the calls of simulate_propagator with no duration and no advance
InitAxyCallers ==
  \/ InitPulse
  \/ sim_time = 0 /\ sim_adv = 0 /\ InitSim

AxyCallersNext == AxyCall \/ AdvanceCall \/ SimulateStatic \/ SimulateDynamic

SpecAxyCallers == InitAxyCallers /\ [][AxyCallersNext]_vars

Init ==
  \/ InitAlg \/ InitCluster \/ InitPulse \/ InitSim \/ InitFt \/ InitFid \/ InitLk \/ InitUi
  \/ InitGc
  \/ InitMv
  \/ InitRun

Next ==
  \/ AlgNext \/ ClusterNext \/ PulseNext \/ SimNext \/ FtNext \/ FidNext \/ LkNext \/ UiNext
  \/ GcNext
  \/ MvNext
  \/ RunNext

Spec == Init /\ [][Next]_vars

====
